---- MODULE Spec2Model ----
(***************************************************************************)
(* The graph exercises of arthurbrenno/grafos.  Every file of the          *)
(* repository is an independent program with its own graph class; prog     *)
(* says which program runs, grafo is that program's graph object, ret is   *)
(* the outcome of the last call made on it.                                *)
(*                                                                         *)
(* A Python dict is a function whose DOMAIN is its key set, with its key    *)
(* order in ordem where a loop goes over the dict; a list is a sequence, a *)
(* set is a set, and a loop over a set takes an order as a parameter.      *)
(* None is <<>> in a matrix cell and <<w>> is the weight w.                *)
(*                                                                         *)
(* A call is one step, except where it is followed statement by statement: *)
(* chamada then holds its local variables until it returns.                *)
(*                                                                         *)
(* Spec runs the insertions and lookups of every program on small graphs.  *)
(* SpecProp, SpecTarefa1, SpecT2 and SpecTrabalho1 run one program each    *)
(* with its searches, SpecConexo gives the same edges to two programs.     *)
(* SpecCaminhos runs the path searches, SpecTravessias every traversal,    *)
(* SpecMenorDistancia the shortest distance of tarefa1/tarefa1.py,         *)
(* SpecPrim follows prim iteration by iteration and SpecPilha the          *)
(* depth-first searches call by call, under weak fairness of their steps.  *)
(***************************************************************************)
EXTENDS Integers, Sequences, FiniteSets, TLC

\* ------------------------------------------------------------------ bounds
MaxPeso == 2
MaxArestas == 2
MaxTuplas == 2
MaxArestasProp == 4
MaxArestasTrabalho1 == 3
MaxArestasTarefa1 == 3
MaxArestasConexo == 3
MaxArestasCaminhos == 3
MaxArestasPrim == 3
MaxArestasPilha == 3

\* Vertex labels the calls are made with; the adjacency-list variant is also
\* called with lower-case labels.
Nomes == {"A", "B", "C"}
Nomes2 == {"A", "B"}
NomesLista == {"A", "B", "a", "b"}
Pesos == 1..MaxPeso

Programas ==
    {"tarefa1", "dfs_bfs", "propriedades_grafo", "tarefa2_lista",
     "tarefa2_matriz", "main", "aula1"}

VARIABLES
    prog,       \* the program (source file) that is running
    grafo,      \* its graph object
    ret,        \* outcome of the last call: [op, out, val]
    inseridas,  \* history: the edges <<u, v, w>> inserted so far (tarefa1,
                \* dfs_bfs), the cells <<origem, destino>> written so far
                \* (tarefa2_matriz), the calls <<n, v1, v2>> of add_aresta, n
                \* the number of the call (propriedades_grafo)
    ordem,      \* the keys of the dict in insertion order, which is the order
                \* a loop over the dict follows (propriedades_grafo,
                \* tarefa2_matriz, dfs_bfs)
    chamada     \* the local variables of the call that is running, where the
                \* call is followed step by step; <<>> when no call is running

vars == <<prog, grafo, ret, inseridas, ordem, chamada>>

\* ----------------------------------------------------------- Python values
\* d[k] = v
DictSet(d, k, v) == [x \in (DOMAIN d) \cup {k} |-> IF x = k THEN v ELSE d[x]]

\* a procedure returned normally
Ok(op) == [op |-> op, out |-> "ok", val |-> <<>>]
\* the call raised the exception exc
Raise(op, exc) == [op |-> op, out |-> "raise", val |-> <<exc>>]

\* a call that returns the value v
Return(op, v) == [op |-> op, out |-> "return", val |-> <<v>>]

\* the lists that hold every element of the set S once: the orders in which
\* a loop can go through the Python set S
Ordens(S) ==
    {f \in [1..Cardinality(S) -> S] : \A i, j \in 1..Cardinality(S) : f[i] = f[j] => i = j}

\* None, where a value v that can be None is held as <<v>>
None == <<>>

\* str.upper on the labels in use
Upper(s) == CASE s = "a" -> "A" [] s = "b" -> "B" [] OTHER -> s

RECURSIVE SumLen(_, _)
\* sum of len(d[k]) over the keys ks of the dict of lists d
SumLen(d, ks) ==
    IF ks = {} THEN 0
    ELSE LET k == CHOOSE x \in ks : TRUE
         IN Len(d[k]) + SumLen(d, ks \ {k})

\* the key order of a dict after d[k] = ...: a new key goes last
InserirChave(ord, k) ==
    IF \E i \in 1..Len(ord) : ord[i] = k THEN ord ELSE Append(ord, k)

\* number of occurrences of e in the list s
Count(s, e) == Cardinality({i \in 1..Len(s) : s[i] = e})

\* =========================================================== tarefa1.py
\* Grafo(vertices=ListaDeVertices(), arcos=MapaDeArcos())
GrafoT1 == [vertices |-> {}, arcos |-> <<>>]

\* peso of a 2-tuple, and the default of Arco.peso
PesoPadrao == 1

\* an Arco that drops the weight it is given
Arco_sem_peso(v1, v2, peso) == [origem |-> v1, destino |-> v2, peso |-> PesoPadrao]

\* Arco(origem, destino, peso)
Arco(v1, v2, peso) == [origem |-> v1, destino |-> v2, peso |-> peso]

\* ListaDeVertices.criar
ListaDeVerticesCriar(gr, v) == [gr EXCEPT !.vertices = @ \cup {v}]

\* MapaDeArcos.criar
MapaDeArcosCriar(gr, v1, v2, arco) ==
    [gr EXCEPT !.arcos = DictSet(@, <<v1, v2>>, arco)]

\* the weight the caller gives with the tuple tup
TuplaPeso(tup) == IF Len(tup) = 3 THEN tup[3] ELSE PesoPadrao

\* g without its check of the second vertex
GTupla_sem_v2(gr, tup) ==
    LET v1 == tup[1]
        v2 == tup[2]
        arco == Arco(v1, v2, IF Len(tup) = 3 THEN tup[3] ELSE PesoPadrao)
    IN  IF v1 \notin gr.vertices THEN [grafo |-> gr, exc |-> <<"ValueError">>]
        ELSE [grafo |-> MapaDeArcosCriar(MapaDeArcosCriar(gr, v1, v2, arco),
                                         v2, v1, arco),
              exc |-> <<>>]

\* one iteration of the loop of g on the tuple tup: the graph after it, and
\* the exception it raised (<<>> when none)
GTupla(gr, tup) ==
    LET v1 == tup[1]
        v2 == tup[2]
        arco == Arco(v1, v2, IF Len(tup) = 3 THEN tup[3] ELSE PesoPadrao)
    IN  IF v1 \notin gr.vertices THEN [grafo |-> gr, exc |-> <<"ValueError">>]
        ELSE IF v2 \notin gr.vertices THEN [grafo |-> gr, exc |-> <<"ValueError">>]
        ELSE [grafo |-> MapaDeArcosCriar(MapaDeArcosCriar(gr, v1, v2, arco),
                                         v2, v1, arco),
              exc |-> <<>>]

RECURSIVE GLoop(_, _, _, _)
\* the loop of g from its i-th tuple on; ins are the edges inserted so far
GLoop(gr, to, i, ins) ==
    IF i > Len(to) THEN [grafo |-> gr, exc |-> <<>>, ins |-> ins]
    ELSE LET r == GTupla(gr, to[i])
         IN  IF r.exc # <<>> THEN [grafo |-> r.grafo, exc |-> r.exc, ins |-> ins]
             ELSE GLoop(r.grafo, to, i + 1,
                        ins \cup {<<to[i][1], to[i][2], TuplaPeso(to[i])>>})

\* g(grafo, *_to)
g(gr, to) == GLoop(gr, to, 1, {})

\* the tuples g is called with: (v1, v2) and (v1, v2, peso)
Tuplas == (Nomes2 \X Nomes2) \cup (Nomes2 \X Nomes2 \X Pesos)

\* the argument lists *_to
ListasDeTuplas(n) == [1..n -> Tuplas]

\* tarefa1.py and its later version tarefa1/tarefa1.py, which has the same
\* Grafo, ListaDeVertices, MapaDeArcos and g
ProgsTarefa1 == {"tarefa1", "tarefa1/tarefa1"}

\* grafo.vertices.criar(v)
VerticesCriar(v) ==
    /\ prog \in ProgsTarefa1
    /\ grafo' = ListaDeVerticesCriar(grafo, v)
    /\ ret' = Ok("vertices.criar")
    /\ UNCHANGED <<prog, inseridas, ordem, chamada>>

\* g(grafo, to[1], ..., to[n])
G(to) ==
    /\ prog \in ProgsTarefa1
    /\ LET r == g(grafo, to)
       IN  /\ grafo' = r.grafo
           /\ ret' = IF r.exc = <<>> THEN Ok("g") ELSE Raise("g", r.exc[1])
           /\ inseridas' = inseridas \cup r.ins
    /\ UNCHANGED <<prog, ordem, chamada>>

RECURSIVE Caminhos_dfs(_, _, _, _, _, _, _)
RECURSIVE Caminhos_dfs_loop(_, _, _, _, _, _, _, _)
\* dfs that takes the arc from atual to destino, if there is one, and
\* searches no further
Caminhos_dfs_so_arco(gr, atual, destino, caminho_atual, vertices_visitados, ord, todos_caminhos) ==
    IF atual = destino THEN Append(todos_caminhos, caminho_atual)
    ELSE IF <<atual, destino>> \in DOMAIN gr.arcos
    THEN Append(todos_caminhos, Append(caminho_atual, gr.arcos[<<atual, destino>>]))
    ELSE todos_caminhos

\* dfs of calcular_possibilidades_caminhos: the list todos_caminhos after
\* dfs(atual, destino, caminho_atual, vertices_visitados).  The loop over the
\* set of vertices follows ord.
Caminhos_dfs(gr, atual, destino, caminho_atual, vertices_visitados, ord, todos_caminhos) ==
    IF atual = destino THEN Append(todos_caminhos, caminho_atual)
    ELSE Caminhos_dfs_loop(gr, atual, destino, caminho_atual,
                           vertices_visitados \cup {atual}, ord, todos_caminhos, 1)

\* the loop of dfs that does not take the arc off the path after the search
\* below it
Caminhos_dfs_loop_sem_pop(gr, atual, destino, caminho_atual, vertices_visitados, ord, todos_caminhos, i) ==
    IF i > Len(ord) THEN todos_caminhos
    ELSE LET vertice == ord[i]
         IN  IF <<atual, vertice>> \in DOMAIN gr.arcos /\ vertice \notin vertices_visitados
             THEN LET arco == gr.arcos[<<atual, vertice>>]
                  IN  Caminhos_dfs_loop(
                          gr, atual, destino, Append(caminho_atual, arco),
                          vertices_visitados, ord,
                          Caminhos_dfs(gr, vertice, destino, Append(caminho_atual, arco),
                                       vertices_visitados, ord, todos_caminhos),
                          i + 1)
             ELSE Caminhos_dfs_loop(gr, atual, destino, caminho_atual,
                                    vertices_visitados, ord, todos_caminhos, i + 1)

\* the loop of dfs from the i-th vertex of ord on; vertices_visitados holds
\* atual until the loop ends
Caminhos_dfs_loop(gr, atual, destino, caminho_atual, vertices_visitados, ord, todos_caminhos, i) ==
    IF i > Len(ord) THEN todos_caminhos
    ELSE LET vertice == ord[i]
         IN  IF <<atual, vertice>> \in DOMAIN gr.arcos /\ vertice \notin vertices_visitados
             THEN LET arco == gr.arcos[<<atual, vertice>>]
                  IN  Caminhos_dfs_loop(
                          gr, atual, destino, caminho_atual, vertices_visitados, ord,
                          Caminhos_dfs(gr, vertice, destino, Append(caminho_atual, arco),
                                       vertices_visitados, ord, todos_caminhos),
                          i + 1)
             ELSE Caminhos_dfs_loop(gr, atual, destino, caminho_atual,
                                    vertices_visitados, ord, todos_caminhos, i + 1)

\* calcular_possibilidades_caminhos without its test of the two vertices
Calcular_possibilidades_caminhos_sem_teste(gr, v1, v2, ord) ==
    Caminhos_dfs(gr, v1, v2, <<>>, {}, ord, <<>>)

\* CalculadoraDeGrafo.calcular_possibilidades_caminhos
Calcular_possibilidades_caminhos(gr, v1, v2, ord) ==
    IF v1 \notin gr.vertices \/ v2 \notin gr.vertices THEN <<>>
    ELSE Caminhos_dfs(gr, v1, v2, <<>>, {}, ord, <<>>)

\* calculadora.calcular_possibilidades_caminhos(v1, v2); ret.args are the
\* arguments of the call
Caminhos(v1, v2, ord) ==
    /\ prog = "tarefa1"
    /\ ret' = [op |-> "calcular_possibilidades_caminhos", out |-> "return",
               val |-> <<Calcular_possibilidades_caminhos(grafo, v1, v2, ord)>>,
               args |-> <<v1, v2>>]
    /\ UNCHANGED <<prog, grafo, inseridas, ordem, chamada>>

\* ---- calcular_possibilidades_caminhos followed call by call.  chamada holds
\* todos_caminhos, the two objects every call of dfs shares (caminho_atual,
\* vertices_visitados) and pilha, the calls of dfs that have not returned,
\* the last one running: atual is its argument, i is 0 at its entry and then
\* the position in ord of the vertex its loop looks at next.

\* the list xs without its last element
SemUltimo(xs) == SubSeq(xs, 1, Len(xs) - 1)

\* the running dfs returns and its caller goes on without caminho_atual.pop()
Dfs_retorna_sem_pop(ch) ==
    LET n == Len(ch.pilha)
    IN  IF n = 1 THEN [ch EXCEPT !.pilha = <<>>]
        ELSE [ch EXCEPT !.pilha = Append(SubSeq(@, 1, n - 2),
                                         [@[n - 1] EXCEPT !.i = @ + 1])]

\* the running dfs returns: its caller, if there is one, pops the arc it
\* had appended and goes on with the next vertex of its loop
Dfs_retorna(ch) ==
    LET n == Len(ch.pilha)
    IN  IF n = 1 THEN [ch EXCEPT !.pilha = <<>>]
        ELSE [ch EXCEPT !.pilha = Append(SubSeq(@, 1, n - 2),
                                         [@[n - 1] EXCEPT !.i = @ + 1]),
                        !.caminho_atual = SemUltimo(@)]

\* calcular_possibilidades_caminhos(v1, v2) is called with two vertices of
\* the graph: dfs(v1, v2, [], set()) is entered
CaminhosChamada(v1, v2, ord) ==
    /\ prog = "tarefa1"
    /\ chamada = <<>>
    /\ v1 \in grafo.vertices /\ v2 \in grafo.vertices
    /\ chamada' = [op |-> "calcular_possibilidades_caminhos", args |-> <<v1, v2>>,
                   ord |-> ord,
                   pilha |-> <<[atual |-> v1, i |-> 0]>>,
                   caminho_atual |-> <<>>,
                   vertices_visitados |-> {},
                   todos_caminhos |-> <<>>]
    /\ UNCHANGED <<prog, grafo, ret, inseridas, ordem>>

\* the dfs just entered tests atual == destino: it records a copy of the
\* path and returns, or marks atual and starts its loop
DfsEntra ==
    /\ prog = "tarefa1"
    /\ chamada # <<>>
    /\ Len(chamada.pilha) > 0
    /\ LET n == Len(chamada.pilha)
           atual == chamada.pilha[n].atual
       IN  /\ chamada.pilha[n].i = 0
           /\ chamada' =
                 IF atual = chamada.args[2]
                 THEN Dfs_retorna([chamada EXCEPT !.todos_caminhos =
                                       Append(@, chamada.caminho_atual)])
                 ELSE [chamada EXCEPT !.vertices_visitados = @ \cup {atual},
                                      !.pilha[n].i = 1]
    /\ UNCHANGED <<prog, grafo, ret, inseridas, ordem>>

\* one iteration of the loop of the running dfs, up to the call it makes
DfsLaco ==
    /\ prog = "tarefa1"
    /\ chamada # <<>>
    /\ Len(chamada.pilha) > 0
    /\ LET n == Len(chamada.pilha)
           atual == chamada.pilha[n].atual
           i == chamada.pilha[n].i
       IN  /\ i \in 1..Len(chamada.ord)
           /\ LET vertice == chamada.ord[i]
              IN  chamada' =
                    IF /\ <<atual, vertice>> \in DOMAIN grafo.arcos
                       /\ vertice \notin chamada.vertices_visitados
                    THEN [chamada EXCEPT
                            !.caminho_atual = Append(@, grafo.arcos[<<atual, vertice>>]),
                            !.pilha = Append(@, [atual |-> vertice, i |-> 0])]
                    ELSE [chamada EXCEPT !.pilha[n].i = i + 1]
    /\ UNCHANGED <<prog, grafo, ret, inseridas, ordem>>

\* the loop of the running dfs has ended: it unmarks atual and returns
DfsSai ==
    /\ prog = "tarefa1"
    /\ chamada # <<>>
    /\ Len(chamada.pilha) > 0
    /\ LET n == Len(chamada.pilha)
       IN  /\ chamada.pilha[n].i > Len(chamada.ord)
           /\ chamada' = Dfs_retorna([chamada EXCEPT !.vertices_visitados =
                                         @ \ {chamada.pilha[n].atual}])
    /\ UNCHANGED <<prog, grafo, ret, inseridas, ordem>>

\* the first dfs has returned: calcular_possibilidades_caminhos returns
\* todos_caminhos
CaminhosRetorno ==
    /\ prog = "tarefa1"
    /\ chamada # <<>>
    /\ Len(chamada.pilha) = 0
    /\ ret' = [op |-> "calcular_possibilidades_caminhos", out |-> "return",
               val |-> <<chamada.todos_caminhos>>, args |-> chamada.args]
    /\ chamada' = <<>>
    /\ UNCHANGED <<prog, grafo, inseridas, ordem>>

RECURSIVE Soma_pesos_loop(_, _, _)
\* the inner loop of calcular_soma_pesos from the i-th arc of possibilidade
\* on: soma_pesos += arco.peso
Soma_pesos_loop(possibilidade, i, soma_pesos) ==
    IF i > Len(possibilidade) THEN soma_pesos
    ELSE Soma_pesos_loop(possibilidade, i + 1, soma_pesos + possibilidade[i].peso)

\* calcular_soma_pesos that adds the default weight for every arc
Calcular_soma_pesos_sem_peso(gr, v1, v2, ord) ==
    LET possibilidades == Calcular_possibilidades_caminhos(gr, v1, v2, ord)
    IN  [k \in 1..Len(possibilidades) |-> Len(possibilidades[k]) * PesoPadrao]

\* CalculadoraDeGrafo.calcular_soma_pesos
Calcular_soma_pesos(gr, v1, v2, ord) ==
    LET possibilidades == Calcular_possibilidades_caminhos(gr, v1, v2, ord)
    IN  [k \in 1..Len(possibilidades) |-> Soma_pesos_loop(possibilidades[k], 1, 0)]

\* CalculadoraDeGrafo.calcular_soma_comprimentos
Calcular_soma_comprimentos(gr, v1, v2, ord) ==
    LET possibilidades == Calcular_possibilidades_caminhos(gr, v1, v2, ord)
    IN  [k \in 1..Len(possibilidades) |-> Len(possibilidades[k])]

\* calculadora.calcular_soma_pesos(v1, v2)
SomaPesos(v1, v2, ord) ==
    /\ prog = "tarefa1"
    /\ ret' = [op |-> "calcular_soma_pesos", out |-> "return",
               val |-> <<Calcular_soma_pesos(grafo, v1, v2, ord)>>,
               args |-> <<v1, v2>>]
    /\ UNCHANGED <<prog, grafo, inseridas, ordem, chamada>>

\* calculadora.calcular_soma_comprimentos(v1, v2)
SomaComprimentos(v1, v2, ord) ==
    /\ prog = "tarefa1"
    /\ ret' = [op |-> "calcular_soma_comprimentos", out |-> "return",
               val |-> <<Calcular_soma_comprimentos(grafo, v1, v2, ord)>>,
               args |-> <<v1, v2>>]
    /\ UNCHANGED <<prog, grafo, inseridas, ordem, chamada>>

\* =================================================== tarefa1/tarefa1.py
\* CalculadoraDeGrafo.calcular_menor_distancia_com_pesos; algoritmo is None
\* or <<"dijkstra">>
Calcular_menor_distancia_com_pesos(gr, origem, destino, algoritmo) ==
    LET algoritmo_ == IF algoritmo = None THEN <<"dijkstra">> ELSE algoritmo
    IN  -1

\* calculadora.calcular_menor_distancia_com_pesos(origem, destino, algoritmo)
MenorDistancia(origem, destino, algoritmo) ==
    /\ prog = "tarefa1/tarefa1"
    /\ ret' = [op |-> "calcular_menor_distancia_com_pesos", out |-> "return",
               val |-> <<Calcular_menor_distancia_com_pesos(grafo, origem, destino,
                                                            algoritmo)>>,
               args |-> <<origem, destino>>]
    /\ UNCHANGED <<prog, grafo, inseridas, ordem, chamada>>

\* =========================================================== dfs_bfs.py
\* Graph.add_aresta without the half-edge d -> o
Graph_add_aresta_sem_volta(gr, o, d, p) ==
    LET g1 == IF o \notin DOMAIN gr THEN DictSet(gr, o, <<>>) ELSE gr
        g2 == IF d \notin DOMAIN g1 THEN DictSet(g1, d, <<>>) ELSE g1
    IN  [g2 EXCEPT ![o] = Append(@, <<d, p>>)]

\* Graph.add_aresta
Graph_add_aresta(gr, o, d, p) ==
    LET g1 == IF o \notin DOMAIN gr THEN DictSet(gr, o, <<>>) ELSE gr
        g2 == IF d \notin DOMAIN g1 THEN DictSet(g1, d, <<>>) ELSE g1
        g3 == [g2 EXCEPT ![o] = Append(@, <<d, p>>)]
    IN  [g3 EXCEPT ![d] = Append(@, <<o, p>>)]

\* w(g, v1, v2): what the call returns or raises
w(gr, v1, v2) ==
    IF v1 \notin DOMAIN gr THEN [out |-> "raise", val |-> <<"KeyError">>]
    ELSE LET neighbors == gr[v1]
             hits == {i \in 1..Len(neighbors) : neighbors[i][1] = v2}
         IN  IF hits = {}
             THEN [out |-> "raise", val |-> <<"RuntimeError">>]
             ELSE LET first == CHOOSE i \in hits : \A j \in hits : i <= j
                  IN  [out |-> "return", val |-> <<neighbors[first][2]>>]

\* g.add_aresta(o, d, p)
DfsBfsAddAresta(o, d, p) ==
    /\ prog = "dfs_bfs"
    /\ grafo' = Graph_add_aresta(grafo, o, d, p)
    /\ ret' = Ok("add_aresta")
    /\ inseridas' = inseridas \cup {<<o, d, p>>}
    /\ ordem' = InserirChave(InserirChave(ordem, o), d)
    /\ UNCHANGED <<prog, chamada>>

\* w(g, v1, v2)
DfsBfsW(v1, v2) ==
    /\ prog = "dfs_bfs"
    /\ ret' = [op |-> "w"] @@ w(grafo, v1, v2)
    /\ UNCHANGED <<prog, grafo, inseridas, ordem, chamada>>


\* float("inf"): above every weight in use
Inf == MaxPeso + 1

\* ord(s) of the one-letter labels in use
Codigo(s) ==
    CASE s = "A" -> 65 [] s = "B" -> 66 [] s = "C" -> 67 [] s = "D" -> 68
      [] s = "E" -> 69 [] s = "a" -> 97 [] s = "b" -> 98 [] s = "c" -> 99
      [] s = "d" -> 100

\* u < v on strings of one letter
StrLt(u, v) == Codigo(u) < Codigo(v)

RECURSIVE Extract_min_loop(_, _, _)
\* the loop of EXTRACT_MIN from the i-th element of Q on
Extract_min_loop(Q, i, min) ==
    IF i > Len(Q) THEN min
    ELSE Extract_min_loop(Q, i + 1, IF StrLt(Q[i], min) THEN Q[i] ELSE min)

\* EXTRACT_MIN(Q) on a list that is not empty: the value returned and the
\* list after the call
EXTRACT_MIN(Q) ==
    LET min == Extract_min_loop(Q, 1, Q[1])
        idx == CHOOSE i \in 1..Len(Q) : Q[i] = min /\ \A j \in 1..i - 1 : Q[j] # min
    IN  [min |-> min, Q |-> SubSeq(Q, 1, idx - 1) \o SubSeq(Q, idx + 1, Len(Q))]

\* v is an element of the list Q
NaLista(Q, v) == \E i \in 1..Len(Q) : Q[i] = v

RECURSIVE Prim_relaxa(_, _, _, _, _, _)
\* the loop over g[u] that also updates vertices that are no longer in Q
Prim_relaxa_sem_Q(gr, u, Q, key, pai, i) ==
    IF i > Len(gr[u]) THEN [key |-> key, pai |-> pai]
    ELSE LET v == gr[u][i]
         IN  IF w(gr, u, v[1]).val[1] < key[v[1]]
             THEN Prim_relaxa(gr, u, Q, [key EXCEPT ![v[1]] = w(gr, u, v[1]).val[1]],
                              [pai EXCEPT ![v[1]] = <<u>>], i + 1)
             ELSE Prim_relaxa(gr, u, Q, key, pai, i + 1)

\* the loop of prim over g[u] from its i-th entry on: key and pai after it;
\* pai[v] is None or <<u>> for the vertex u
Prim_relaxa(gr, u, Q, key, pai, i) ==
    IF i > Len(gr[u]) THEN [key |-> key, pai |-> pai]
    ELSE LET v == gr[u][i]
         IN  IF NaLista(Q, v[1]) /\ w(gr, u, v[1]).val[1] < key[v[1]]
             THEN Prim_relaxa(gr, u, Q, [key EXCEPT ![v[1]] = w(gr, u, v[1]).val[1]],
                              [pai EXCEPT ![v[1]] = <<u>>], i + 1)
             ELSE Prim_relaxa(gr, u, Q, key, pai, i + 1)

RECURSIVE Prim_new_graph(_, _, _, _, _)
\* the loop of prim over pai.items() from the i-th key on, ord being the key
\* order of pai: new_graph after it
Prim_new_graph(pai, key, ord, i, new_graph) ==
    IF i > Len(ord) THEN new_graph
    ELSE LET vertice == ord[i]
             vertice_pai == pai[vertice]
         IN  IF vertice_pai = None
             THEN Prim_new_graph(pai, key, ord, i + 1, new_graph)
             ELSE Prim_new_graph(pai, key, ord, i + 1,
                                 Graph_add_aresta(new_graph, vertice, vertice_pai[1],
                                                  key[vertice]))

\* prim(g, w, r) is called: key, pai and Q before the first iteration.
\* extraidos lists the vertices EXTRACT_MIN has returned so far.
PrimChamada(r) ==
    /\ prog = "dfs_bfs"
    /\ chamada = <<>>
    /\ chamada' = [op |-> "prim", r |-> r,
                   key |-> DictSet([u \in DOMAIN grafo |-> Inf], r, 0),
                   pai |-> [u \in DOMAIN grafo |-> None],
                   Q |-> ordem,
                   extraidos |-> <<>>]
    /\ UNCHANGED <<prog, grafo, ret, inseridas, ordem>>

\* one iteration of the while loop of prim
PrimIteracao ==
    /\ prog = "dfs_bfs"
    /\ chamada # <<>>
    /\ Len(chamada.Q) # 0
    /\ LET e == EXTRACT_MIN(chamada.Q)
           rel == Prim_relaxa(grafo, e.min, e.Q, chamada.key, chamada.pai, 1)
       IN  chamada' = [chamada EXCEPT !.Q = e.Q, !.key = rel.key, !.pai = rel.pai,
                                      !.extraidos = Append(@, e.min)]
    /\ UNCHANGED <<prog, grafo, ret, inseridas, ordem>>

\* prim that adds the edges of the tree to g and returns g
PrimRetorno_no_mesmo_grafo ==
    /\ prog = "dfs_bfs"
    /\ chamada # <<>>
    /\ Len(chamada.Q) = 0
    /\ grafo' = Prim_new_graph(chamada.pai, chamada.key, ordem, 1, grafo)
    /\ ret' = [op |-> "prim", out |-> "return", val |-> <<grafo'>>,
               args |-> <<chamada.r>>]
    /\ chamada' = <<>>
    /\ UNCHANGED <<prog, inseridas, ordem>>

\* the while loop of prim has ended: new_graph is built and returned
PrimRetorno ==
    /\ prog = "dfs_bfs"
    /\ chamada # <<>>
    /\ Len(chamada.Q) = 0
    /\ ret' = [op |-> "prim", out |-> "return",
               val |-> <<Prim_new_graph(chamada.pai, chamada.key, ordem, 1, <<>>)>>,
               args |-> <<chamada.r>>]
    /\ chamada' = <<>>
    /\ UNCHANGED <<prog, grafo, inseridas, ordem>>

\* ================================================ propriedades_grafo.py
\* Grafo.add_aresta
Prop_add_aresta(gr, v1, v2) ==
    LET g1 == IF v1 \notin DOMAIN gr THEN DictSet(gr, v1, <<>>) ELSE gr
        g2 == IF v2 \notin DOMAIN g1 THEN DictSet(g1, v2, <<>>) ELSE g1
        g3 == [g2 EXCEPT ![v1] = Append(@, v2)]
    IN  [g3 EXCEPT ![v2] = Append(@, v1)]

\* grafo.add_aresta(v1, v2)
PropAddAresta(v1, v2) ==
    /\ prog = "propriedades_grafo"
    /\ grafo' = Prop_add_aresta(grafo, v1, v2)
    /\ ordem' = InserirChave(InserirChave(ordem, v1), v2)
    /\ ret' = Ok("add_aresta")
    /\ inseridas' = inseridas \cup {<<Cardinality(inseridas) + 1, v1, v2>>}
    /\ UNCHANGED <<prog, chamada>>

RECURSIVE Conexo_dfs(_, _, _)
RECURSIVE Conexo_dfs_loop(_, _, _, _)
\* dfs of eh_conexo: the set visitados after dfs(vertice)
Conexo_dfs(gr, vertice, visitados) ==
    Conexo_dfs_loop(gr, vertice, 1, visitados \cup {vertice})

\* the loop of dfs from the i-th neighbour of vertice on
Conexo_dfs_loop(gr, vertice, i, visitados) ==
    IF i > Len(gr[vertice]) THEN visitados
    ELSE LET vizinho == gr[vertice][i]
         IN  IF vizinho \notin visitados
             THEN Conexo_dfs_loop(gr, vertice, i + 1, Conexo_dfs(gr, vizinho, visitados))
             ELSE Conexo_dfs_loop(gr, vertice, i + 1, visitados)

\* eh_conexo that looks at the neighbours of the first vertex only
Prop_eh_conexo_sem_recursao(gr, ord) ==
    IF DOMAIN gr = {} THEN TRUE
    ELSE LET primeiro_vertice == ord[1]
             visitados == {primeiro_vertice} \cup
                          {gr[primeiro_vertice][i] : i \in 1..Len(gr[primeiro_vertice])}
         IN  Cardinality(visitados) = Cardinality(DOMAIN gr)

\* Grafo.eh_conexo; ord is the key order of the dict
Prop_eh_conexo(gr, ord) ==
    IF DOMAIN gr = {} THEN TRUE
    ELSE LET primeiro_vertice == ord[1]
             visitados == Conexo_dfs(gr, primeiro_vertice, {})
         IN  Cardinality(visitados) = Cardinality(DOMAIN gr)

RECURSIVE Tem_ciclo(_, _, _, _)
RECURSIVE Tem_ciclo_loop(_, _, _, _, _)
\* tem_ciclo(vertice, pai) of eh_ciclico: what it returns and the set
\* visitados after it; pai is <<>> for None and <<p>> for the vertex p
Tem_ciclo(gr, vertice, pai, visitados) ==
    Tem_ciclo_loop(gr, vertice, pai, 1, visitados \cup {vertice})

\* the loop of tem_ciclo from the i-th neighbour of vertice on
Tem_ciclo_loop(gr, vertice, pai, i, visitados) ==
    IF i > Len(gr[vertice]) THEN [ciclo |-> FALSE, visitados |-> visitados]
    ELSE LET vizinho == gr[vertice][i]
         IN  IF vizinho \in visitados /\ <<vizinho>> # pai
             THEN [ciclo |-> TRUE, visitados |-> visitados]
             ELSE IF vizinho \notin visitados
             THEN LET r == Tem_ciclo(gr, vizinho, <<vertice>>, visitados)
                  IN  IF r.ciclo THEN r
                      ELSE Tem_ciclo_loop(gr, vertice, pai, i + 1, r.visitados)
             ELSE Tem_ciclo_loop(gr, vertice, pai, i + 1, visitados)

RECURSIVE Eh_ciclico_loop(_, _, _, _)
\* the loop of eh_ciclico over the vertices from the i-th key on
Eh_ciclico_loop(gr, ord, i, visitados) ==
    IF i > Len(ord) THEN FALSE
    ELSE IF ord[i] \notin visitados
    THEN LET r == Tem_ciclo(gr, ord[i], <<>>, visitados)
         IN  IF r.ciclo THEN TRUE ELSE Eh_ciclico_loop(gr, ord, i + 1, r.visitados)
    ELSE Eh_ciclico_loop(gr, ord, i + 1, visitados)

\* eh_ciclico that searches from the first vertex only
Prop_eh_ciclico_so_primeiro(gr, ord) ==
    IF ord = <<>> THEN FALSE ELSE Tem_ciclo(gr, ord[1], <<>>, {}).ciclo

\* Grafo.eh_ciclico; ord is the key order of the dict
Prop_eh_ciclico(gr, ord) == Eh_ciclico_loop(gr, ord, 1, {})

\* eh_plano that counts every entry of the adjacency lists as an edge
Prop_eh_plano_sem_metade(gr) ==
    IF DOMAIN gr = {} THEN TRUE
    ELSE LET v == Cardinality(DOMAIN gr)
             e == SumLen(gr, DOMAIN gr)
         IN  IF v >= 3 THEN e <= 3 * v - 6 ELSE TRUE

\* Grafo.eh_plano
Prop_eh_plano(gr) ==
    IF DOMAIN gr = {} THEN TRUE
    ELSE LET v == Cardinality(DOMAIN gr)
             e == SumLen(gr, DOMAIN gr) \div 2
         IN  IF v >= 3 THEN e <= 3 * v - 6 ELSE TRUE

\* grafo.eh_conexo()
PropEhConexo ==
    /\ prog = "propriedades_grafo"
    /\ ret' = Return("eh_conexo", Prop_eh_conexo(grafo, ordem))
    /\ UNCHANGED <<prog, grafo, inseridas, ordem, chamada>>

\* grafo.eh_ciclico()
PropEhCiclico ==
    /\ prog = "propriedades_grafo"
    /\ ret' = Return("eh_ciclico", Prop_eh_ciclico(grafo, ordem))
    /\ UNCHANGED <<prog, grafo, inseridas, ordem, chamada>>

\* grafo.eh_plano()
PropEhPlano ==
    /\ prog = "propriedades_grafo"
    /\ ret' = Return("eh_plano", Prop_eh_plano(grafo))
    /\ UNCHANGED <<prog, grafo, inseridas, ordem, chamada>>

\* ---- eh_conexo followed call by call.  chamada holds visitados and pilha,
\* the calls of dfs that have not returned, the last one running: vertice is
\* its argument, i the position in self.grafo[vertice] of the neighbour its
\* loop looks at next.

\* eh_conexo() that calls dfs without the first add to visitados
ConexoChamada_sem_add ==
    /\ prog = "propriedades_grafo"
    /\ chamada = <<>>
    /\ IF DOMAIN grafo = {}
       THEN /\ ret' = Return("eh_conexo", TRUE)
            /\ chamada' = chamada
       ELSE /\ chamada' = [op |-> "eh_conexo",
                           pilha |-> <<[vertice |-> ordem[1], i |-> 1]>>,
                           visitados |-> {}]
            /\ ret' = ret
    /\ UNCHANGED <<prog, grafo, inseridas, ordem>>

\* eh_conexo() is called: it returns True on the empty graph, or enters
\* dfs(primeiro_vertice), which adds the vertex to visitados
ConexoChamada ==
    /\ prog = "propriedades_grafo"
    /\ chamada = <<>>
    /\ IF DOMAIN grafo = {}
       THEN /\ ret' = Return("eh_conexo", TRUE)
            /\ chamada' = chamada
       ELSE /\ chamada' = [op |-> "eh_conexo",
                           pilha |-> <<[vertice |-> ordem[1], i |-> 1]>>,
                           visitados |-> {ordem[1]}]
            /\ ret' = ret
    /\ UNCHANGED <<prog, grafo, inseridas, ordem>>

\* one iteration of the loop of the running dfs: it calls dfs(vizinho), which
\* adds vizinho to visitados, or goes on to the next neighbour
ConexoLaco ==
    /\ prog = "propriedades_grafo"
    /\ chamada # <<>>
    /\ chamada.op = "eh_conexo"
    /\ Len(chamada.pilha) > 0
    /\ LET n == Len(chamada.pilha)
           vertice == chamada.pilha[n].vertice
           i == chamada.pilha[n].i
       IN  /\ i <= Len(grafo[vertice])
           /\ LET vizinho == grafo[vertice][i]
              IN  chamada' =
                    IF vizinho \notin chamada.visitados
                    THEN [chamada EXCEPT
                            !.pilha = Append(@, [vertice |-> vizinho, i |-> 1]),
                            !.visitados = @ \cup {vizinho}]
                    ELSE [chamada EXCEPT !.pilha[n].i = i + 1]
    /\ UNCHANGED <<prog, grafo, ret, inseridas, ordem>>

\* the loop of the running dfs has ended: it returns and its caller goes on
\* with the next neighbour
ConexoSai ==
    /\ prog = "propriedades_grafo"
    /\ chamada # <<>>
    /\ chamada.op = "eh_conexo"
    /\ Len(chamada.pilha) > 0
    /\ LET n == Len(chamada.pilha)
       IN  /\ chamada.pilha[n].i > Len(grafo[chamada.pilha[n].vertice])
           /\ chamada' =
                 IF n = 1 THEN [chamada EXCEPT !.pilha = <<>>]
                 ELSE [chamada EXCEPT !.pilha = Append(SubSeq(@, 1, n - 2),
                                                       [@[n - 1] EXCEPT !.i = @ + 1])]
    /\ UNCHANGED <<prog, grafo, ret, inseridas, ordem>>

\* the first dfs has returned: eh_conexo returns
\* len(visitados) == len(self.grafo)
ConexoRetorno ==
    /\ prog = "propriedades_grafo"
    /\ chamada # <<>>
    /\ chamada.op = "eh_conexo"
    /\ Len(chamada.pilha) = 0
    /\ ret' = Return("eh_conexo",
                     Cardinality(chamada.visitados) = Cardinality(DOMAIN grafo))
    /\ chamada' = <<>>
    /\ UNCHANGED <<prog, grafo, inseridas, ordem>>

\* ---- eh_ciclico followed call by call.  chamada holds visitados, j, the
\* position in the keys of the vertex the loop of eh_ciclico looks at next,
\* pilha, the calls of tem_ciclo that have not returned (vertice, pai and the
\* position i in self.grafo[vertice]), and achou, which says that a call of
\* tem_ciclo has returned True.

\* eh_ciclico() is called
CiclicoChamada ==
    /\ prog = "propriedades_grafo"
    /\ chamada = <<>>
    /\ chamada' = [op |-> "eh_ciclico", j |-> 1, pilha |-> <<>>, visitados |-> {},
                   achou |-> FALSE]
    /\ UNCHANGED <<prog, grafo, ret, inseridas, ordem>>

\* one iteration of the loop of eh_ciclico, up to the call of tem_ciclo
CiclicoExterno ==
    /\ prog = "propriedades_grafo"
    /\ chamada # <<>>
    /\ chamada.op = "eh_ciclico"
    /\ Len(chamada.pilha) = 0
    /\ ~chamada.achou
    /\ chamada.j <= Len(ordem)
    /\ LET vertice == ordem[chamada.j]
       IN  chamada' =
             IF vertice \notin chamada.visitados
             THEN [chamada EXCEPT
                     !.pilha = <<[vertice |-> vertice, pai |-> None, i |-> 1]>>,
                     !.visitados = @ \cup {vertice}]
             ELSE [chamada EXCEPT !.j = @ + 1]
    /\ UNCHANGED <<prog, grafo, ret, inseridas, ordem>>

\* one iteration of the loop of the running tem_ciclo: it returns True,
\* calls tem_ciclo(vizinho, vertice), or goes on to the next neighbour
CicloLaco ==
    /\ prog = "propriedades_grafo"
    /\ chamada # <<>>
    /\ chamada.op = "eh_ciclico"
    /\ Len(chamada.pilha) > 0
    /\ ~chamada.achou
    /\ LET n == Len(chamada.pilha)
           vertice == chamada.pilha[n].vertice
           pai == chamada.pilha[n].pai
           i == chamada.pilha[n].i
       IN  /\ i <= Len(grafo[vertice])
           /\ LET vizinho == grafo[vertice][i]
              IN  chamada' =
                    IF vizinho \in chamada.visitados /\ <<vizinho>> # pai
                    THEN [chamada EXCEPT !.pilha = SemUltimo(@), !.achou = TRUE]
                    ELSE IF vizinho \notin chamada.visitados
                    THEN [chamada EXCEPT
                            !.pilha = Append(@, [vertice |-> vizinho,
                                                 pai |-> <<vertice>>, i |-> 1]),
                            !.visitados = @ \cup {vizinho}]
                    ELSE [chamada EXCEPT !.pilha[n].i = i + 1]
    /\ UNCHANGED <<prog, grafo, ret, inseridas, ordem>>

\* the loop of the running tem_ciclo has ended: it returns False and its
\* caller goes on with its loop
CicloSai ==
    /\ prog = "propriedades_grafo"
    /\ chamada # <<>>
    /\ chamada.op = "eh_ciclico"
    /\ Len(chamada.pilha) > 0
    /\ ~chamada.achou
    /\ LET n == Len(chamada.pilha)
       IN  /\ chamada.pilha[n].i > Len(grafo[chamada.pilha[n].vertice])
           /\ chamada' =
                 IF n = 1 THEN [chamada EXCEPT !.pilha = <<>>, !.j = @ + 1]
                 ELSE [chamada EXCEPT !.pilha = Append(SubSeq(@, 1, n - 2),
                                                       [@[n - 1] EXCEPT !.i = @ + 1])]
    /\ UNCHANGED <<prog, grafo, ret, inseridas, ordem>>

\* the call of tem_ciclo made by the running tem_ciclo has returned True:
\* it returns True
CicloPropaga ==
    /\ prog = "propriedades_grafo"
    /\ chamada # <<>>
    /\ chamada.op = "eh_ciclico"
    /\ Len(chamada.pilha) > 0
    /\ chamada.achou
    /\ chamada' = [chamada EXCEPT !.pilha = SemUltimo(@)]
    /\ UNCHANGED <<prog, grafo, ret, inseridas, ordem>>

\* eh_ciclico returns: True after a tem_ciclo that returned True, False at
\* the end of its loop
CiclicoRetorno ==
    /\ prog = "propriedades_grafo"
    /\ chamada # <<>>
    /\ chamada.op = "eh_ciclico"
    /\ Len(chamada.pilha) = 0
    /\ chamada.achou \/ chamada.j > Len(ordem)
    /\ ret' = Return("eh_ciclico", chamada.achou)
    /\ chamada' = <<>>
    /\ UNCHANGED <<prog, grafo, inseridas, ordem>>

\* ======================================================= tarefa2_lista.py
\* number of edges stored in a dict of sets
NumArestas(gr) == Cardinality(UNION {{<<k, e>> : e \in gr[k]} : k \in DOMAIN gr})

\* Grafo.add_vertice
Lista_add_vertice(gr, vertice) ==
    LET vertice_ja_criado == vertice \in DOMAIN gr
    IN  IF vertice_ja_criado THEN gr ELSE DictSet(gr, Upper(vertice), {})

\* Grafo.add_aresta: the graph after the call and the exception raised
Lista_add_aresta(gr, origem, destino, peso) ==
    IF Upper(origem) \notin DOMAIN gr
    THEN [grafo |-> gr, exc |-> <<"RuntimeError">>]
    ELSE IF Upper(destino) \notin DOMAIN gr
    THEN [grafo |-> gr, exc |-> <<"RuntimeError">>]
    ELSE [grafo |-> [gr EXCEPT ![Upper(origem)] = @ \cup {<<Upper(destino), peso>>}],
          exc |-> <<>>]

\* Grafo.obter_peso_vertices_adjacentes: the outcomes the call can have.  The
\* loop keeps the last match in the iteration order of the set, which is
\* any of the matches.
Lista_obter_peso_vertices_adjacentes(gr, origem, destino) ==
    IF origem \notin DOMAIN gr
    THEN {[out |-> "raise", val |-> <<"RuntimeError">>]}
    ELSE LET destinos == gr[origem]
             pesos == {e[2] : e \in {x \in destinos : x[1] = destino}}
         IN  IF pesos = {}
             THEN {[out |-> "raise", val |-> <<"RuntimeError">>]}
             ELSE {[out |-> "return", val |-> <<peso>>] : peso \in pesos}

\* every edge <<origem, destino, peso>> stored in the dict of sets
ArestasLista(gr) == UNION {{<<k, e[1], e[2]>> : e \in gr[k]} : k \in DOMAIN gr}

RECURSIVE Lista_calcular_caminhos_possiveis(_, _, _, _, _, _)
RECURSIVE Lista_caminhos_loop(_, _, _, _, _, _, _, _)
\* Grafo.calcular_caminhos_possiveis: [out, val], val the list of paths or the
\* exception.  ord lists the edges of the graph: the loop over the set
\* self.grafo[origem] takes the edges of origem in the order of ord.
Lista_calcular_caminhos_possiveis(gr, origem, destino, caminho_atual, visitados, ord) ==
    LET vis == visitados \cup {origem}
    IN  IF origem = destino
        THEN [out |-> "return", val |-> <<caminho_atual>>]
        ELSE IF origem \notin DOMAIN gr
        THEN [out |-> "raise", val |-> <<"KeyError">>]
        ELSE Lista_caminhos_loop(gr, origem, destino, caminho_atual, vis, ord, 1, <<>>)

\* the loop of calcular_caminhos_possiveis that returns after the first edge
\* it follows
Lista_caminhos_loop_so_primeiro(gr, origem, destino, caminho_atual, vis, ord, i, caminhos) ==
    IF i > Len(ord) THEN [out |-> "return", val |-> caminhos]
    ELSE IF ord[i][1] # origem \/ ord[i][2] \in vis
    THEN Lista_caminhos_loop(gr, origem, destino, caminho_atual, vis, ord, i + 1, caminhos)
    ELSE Lista_calcular_caminhos_possiveis(
             gr, Upper(ord[i][2]), Upper(destino),
             Append(caminho_atual, <<ord[i][2], ord[i][3]>>), vis, ord)

\* the loop of calcular_caminhos_possiveis from the i-th element of ord on,
\* caminhos being the paths found so far
Lista_caminhos_loop(gr, origem, destino, caminho_atual, vis, ord, i, caminhos) ==
    IF i > Len(ord) THEN [out |-> "return", val |-> caminhos]
    ELSE IF ord[i][1] # origem \/ ord[i][2] \in vis
    THEN Lista_caminhos_loop(gr, origem, destino, caminho_atual, vis, ord, i + 1, caminhos)
    ELSE LET proximo_destino == ord[i][2]
             peso == ord[i][3]
             caminhos_encontrados ==
                 Lista_calcular_caminhos_possiveis(
                     gr, Upper(proximo_destino), Upper(destino),
                     Append(caminho_atual, <<proximo_destino, peso>>), vis, ord)
         IN  IF caminhos_encontrados.out = "raise" THEN caminhos_encontrados
             ELSE Lista_caminhos_loop(gr, origem, destino, caminho_atual, vis, ord,
                                      i + 1, caminhos \o caminhos_encontrados.val)

\* grafo.add_vertice(vertice)
ListaAddVertice(vertice) ==
    /\ prog = "tarefa2_lista"
    /\ grafo' = Lista_add_vertice(grafo, vertice)
    /\ ret' = Ok("add_vertice")
    /\ UNCHANGED <<prog, inseridas, ordem, chamada>>

\* grafo.add_aresta(origem, destino, peso)
ListaAddAresta(origem, destino, peso) ==
    /\ prog = "tarefa2_lista"
    /\ LET r == Lista_add_aresta(grafo, origem, destino, peso)
       IN  /\ grafo' = r.grafo
           /\ ret' = IF r.exc = <<>> THEN Ok("add_aresta")
                     ELSE Raise("add_aresta", r.exc[1])
    /\ UNCHANGED <<prog, inseridas, ordem, chamada>>

\* grafo.obter_peso_vertices_adjacentes(origem, destino)
ListaObterPeso(origem, destino) ==
    /\ prog = "tarefa2_lista"
    /\ \E r \in Lista_obter_peso_vertices_adjacentes(grafo, origem, destino) :
          ret' = [op |-> "obter_peso"] @@ r
    /\ UNCHANGED <<prog, grafo, inseridas, ordem, chamada>>

\* grafo.calcular_caminhos_possiveis(origem, destino); ret.args are the
\* arguments of the call
ListaCaminhos(origem, destino, ord) ==
    /\ prog = "tarefa2_lista"
    /\ ret' = [op |-> "calcular_caminhos_possiveis", args |-> <<origem, destino>>] @@
                Lista_calcular_caminhos_possiveis(grafo, origem, destino, <<>>, {}, ord)
    /\ UNCHANGED <<prog, grafo, inseridas, ordem, chamada>>

\* ====================================================== tarefa2_matriz.py
\* a matrix cell: None, or the weight peso
Cell(peso) == <<peso>>

\* number of cells of the matrix that hold a weight
NumCelulas(gr) ==
    Cardinality({kd \in (DOMAIN gr) \X Nomes :
                    kd[2] \in DOMAIN gr[kd[1]] /\ gr[kd[1]][kd[2]] # None})

\* Grafo.add_vertice without the new column in the rows the matrix had
Matriz_add_vertice_sem_coluna(gr, vertice) ==
    IF vertice \in DOMAIN gr THEN gr
    ELSE DictSet(gr, vertice, [k \in (DOMAIN gr) \cup {vertice} |-> None])

\* Grafo.add_vertice
Matriz_add_vertice(gr, vertice) ==
    IF vertice \in DOMAIN gr THEN gr
    ELSE LET outros == [k \in DOMAIN gr |-> DictSet(gr[k], vertice, None)]
             atual == DictSet(outros, vertice, DictSet(<<>>, vertice, None))
             linha == atual[vertice]
         IN  [atual EXCEPT ![vertice] =
                 [k \in (DOMAIN linha) \cup (DOMAIN atual) |->
                     IF k \in DOMAIN atual THEN None ELSE linha[k]]]

\* Grafo.add_aresta without its check of destino
Matriz_add_aresta_sem_destino(gr, origem, destino, peso) ==
    IF origem \notin DOMAIN gr
    THEN [grafo |-> gr, exc |-> <<"RuntimeError">>]
    ELSE [grafo |-> [gr EXCEPT ![origem] = DictSet(@, destino, Cell(peso))],
          exc |-> <<>>]

\* Grafo.add_aresta that writes the reverse cell as well
Matriz_add_aresta_com_volta(gr, origem, destino, peso) ==
    IF origem \notin DOMAIN gr \/ destino \notin DOMAIN gr
    THEN [grafo |-> gr, exc |-> <<"RuntimeError">>]
    ELSE LET g1 == [gr EXCEPT ![origem] = DictSet(@, destino, Cell(peso))]
         IN  [grafo |-> [g1 EXCEPT ![destino] = DictSet(@, origem, Cell(peso))],
              exc |-> <<>>]

\* Grafo.add_aresta: the graph after the call and the exception raised
Matriz_add_aresta(gr, origem, destino, peso) ==
    IF origem \notin DOMAIN gr
    THEN [grafo |-> gr, exc |-> <<"RuntimeError">>]
    ELSE IF destino \notin DOMAIN gr
    THEN [grafo |-> gr, exc |-> <<"RuntimeError">>]
    ELSE [grafo |-> [gr EXCEPT ![origem] = DictSet(@, destino, Cell(peso))],
          exc |-> <<>>]

\* Grafo.obter_peso_vertices_adjacentes without its test for a None cell
Matriz_obter_peso_sem_none(gr, origem, destino) ==
    IF origem \notin DOMAIN gr
    THEN [out |-> "raise", val |-> <<"RuntimeError">>]
    ELSE IF destino \notin DOMAIN gr[origem]
    THEN [out |-> "raise", val |-> <<"RuntimeError">>]
    ELSE [out |-> "return", val |-> gr[origem][destino]]

\* Grafo.obter_peso_vertices_adjacentes
Matriz_obter_peso_vertices_adjacentes(gr, origem, destino) ==
    IF origem \notin DOMAIN gr
    THEN [out |-> "raise", val |-> <<"RuntimeError">>]
    ELSE IF destino \notin DOMAIN gr[origem] \/ gr[origem][destino] = None
    THEN [out |-> "raise", val |-> <<"RuntimeError">>]
    ELSE [out |-> "return", val |-> gr[origem][destino]]

\* the keys of the row of origem in the order a loop over the row follows:
\* add_vertice starts the row with the vertex itself, then the keys the
\* matrix had, and later vertices are appended
OrdemDaLinha(ord, origem) == <<origem>> \o SelectSeq(ord, LAMBDA k : k # origem)

RECURSIVE Matriz_calcular_caminhos_possiveis(_, _, _, _, _, _)
RECURSIVE Matriz_caminhos_loop(_, _, _, _, _, _, _, _)
\* Grafo.calcular_caminhos_possiveis: [out, val], val the list of paths or the
\* exception; ord is the key order of the matrix
Matriz_calcular_caminhos_possiveis(gr, origem, destino, caminho_atual, visitados, ord) ==
    LET vis == visitados \cup {origem}
    IN  IF origem = destino
        THEN [out |-> "return", val |-> <<caminho_atual>>]
        ELSE IF origem \notin DOMAIN gr
        THEN [out |-> "raise", val |-> <<"KeyError">>]
        ELSE Matriz_caminhos_loop(gr, origem, destino, caminho_atual, vis, ord, 1, <<>>)

\* the loop of calcular_caminhos_possiveis from the i-th key of the row on,
\* caminhos being the paths found so far
Matriz_caminhos_loop(gr, origem, destino, caminho_atual, vis, ord, i, caminhos) ==
    LET linha == OrdemDaLinha(ord, origem)
    IN  IF i > Len(linha) THEN [out |-> "return", val |-> caminhos]
        ELSE LET proximo_destino == linha[i]
                 peso == gr[origem][proximo_destino]
             IN  IF peso = None \/ proximo_destino \in vis
                 THEN Matriz_caminhos_loop(gr, origem, destino, caminho_atual, vis,
                                           ord, i + 1, caminhos)
                 ELSE LET caminhos_encontrados ==
                              Matriz_calcular_caminhos_possiveis(
                                  gr, proximo_destino, destino,
                                  Append(caminho_atual, <<proximo_destino, peso[1]>>),
                                  vis, ord)
                      IN  IF caminhos_encontrados.out = "raise"
                          THEN caminhos_encontrados
                          ELSE Matriz_caminhos_loop(
                                   gr, origem, destino, caminho_atual, vis, ord,
                                   i + 1, caminhos \o caminhos_encontrados.val)

\* grafo.add_vertice(vertice)
MatrizAddVertice(vertice) ==
    /\ prog = "tarefa2_matriz"
    /\ grafo' = Matriz_add_vertice(grafo, vertice)
    /\ ordem' = InserirChave(ordem, vertice)
    /\ ret' = Ok("add_vertice")
    /\ UNCHANGED <<prog, inseridas, chamada>>

\* grafo.add_aresta(origem, destino, peso)
MatrizAddAresta(origem, destino, peso) ==
    /\ prog = "tarefa2_matriz"
    /\ LET r == Matriz_add_aresta(grafo, origem, destino, peso)
       IN  /\ grafo' = r.grafo
           /\ ret' = IF r.exc = <<>> THEN Ok("add_aresta")
                     ELSE Raise("add_aresta", r.exc[1])
           /\ inseridas' = IF r.exc = <<>>
                           THEN inseridas \cup {<<origem, destino>>}
                           ELSE inseridas
    /\ UNCHANGED <<prog, ordem, chamada>>

\* grafo.obter_peso_vertices_adjacentes(origem, destino)
MatrizObterPeso(origem, destino) ==
    /\ prog = "tarefa2_matriz"
    /\ ret' = [op |-> "obter_peso"] @@
                Matriz_obter_peso_vertices_adjacentes(grafo, origem, destino)
    /\ UNCHANGED <<prog, grafo, inseridas, ordem, chamada>>

\* grafo.calcular_caminhos_possiveis(origem, destino); ret.args are the
\* arguments of the call
MatrizCaminhos(origem, destino) ==
    /\ prog = "tarefa2_matriz"
    /\ ret' = [op |-> "calcular_caminhos_possiveis", args |-> <<origem, destino>>] @@
                Matriz_calcular_caminhos_possiveis(grafo, origem, destino, <<>>, {}, ordem)
    /\ UNCHANGED <<prog, grafo, inseridas, ordem, chamada>>

\* ---- calcular_caminhos_possiveis followed call by call.  chamada holds
\* pilha, the calls that have not returned, the last one running, each with
\* its arguments, its list caminhos and i: 0 at its entry, then the position
\* of the edge its loop looks at next; retorno is <<>>, or <<v>> when the
\* first call has returned v.

\* the running call returns valor: the first call ends, any other one hands
\* valor to its caller, which extends its caminhos and goes on with its loop
T2_retorna(ch, valor) ==
    LET n == Len(ch.pilha)
    IN  IF n = 1 THEN [ch EXCEPT !.pilha = <<>>, !.retorno = <<valor>>]
        ELSE [ch EXCEPT !.pilha = Append(SubSeq(@, 1, n - 2),
                                         [@[n - 1] EXCEPT !.i = @ + 1,
                                                          !.caminhos = @ \o valor])]

\* the call calcular_caminhos_possiveis(origem, destino, caminho_atual,
\* visitados) at its entry
T2_quadro(origem, destino, caminho_atual, visitados) ==
    [origem |-> origem, destino |-> destino, caminho_atual |-> caminho_atual,
     visitados |-> visitados, i |-> 0, caminhos |-> <<>>]

\* calcular_caminhos_possiveis(origem, destino) is called on the graph of
\* tarefa2_lista (with the order ord of its sets) or of tarefa2_matriz
T2Chamada(origem, destino, ord) ==
    /\ prog \in {"tarefa2_lista", "tarefa2_matriz"}
    /\ chamada = <<>>
    /\ chamada' = [op |-> "calcular_caminhos_possiveis", args |-> <<origem, destino>>,
                   ord |-> ord,
                   pilha |-> <<T2_quadro(origem, destino, <<>>, {})>>,
                   retorno |-> <<>>]
    /\ UNCHANGED <<prog, grafo, ret, inseridas, ordem>>

\* the call just entered adds origem to visitados and tests origem ==
\* destino: it returns [caminho_atual], or starts its loop over
\* self.grafo[origem], which raises KeyError when origem is no key
T2Entra ==
    /\ prog \in {"tarefa2_lista", "tarefa2_matriz"}
    /\ chamada # <<>>
    /\ Len(chamada.pilha) > 0
    /\ LET n == Len(chamada.pilha)
           q == chamada.pilha[n]
       IN  /\ q.i = 0
           /\ IF q.origem = q.destino
              THEN /\ chamada' = T2_retorna(chamada, <<q.caminho_atual>>)
                   /\ ret' = ret
              ELSE IF q.origem \notin DOMAIN grafo
              THEN /\ chamada' = <<>>
                   /\ ret' = [op |-> "calcular_caminhos_possiveis", args |-> chamada.args,
                              out |-> "raise", val |-> <<"KeyError">>]
              ELSE /\ chamada' = [chamada EXCEPT
                                    !.pilha[n].visitados = @ \cup {q.origem},
                                    !.pilha[n].i = 1]
                   /\ ret' = ret
    /\ UNCHANGED <<prog, grafo, inseridas, ordem>>

\* the edges of origem in the order the loop over the set self.grafo[origem]
\* takes them
SaidasLista(ord, origem) == SelectSeq(ord, LAMBDA e : e[1] = origem)

\* tarefa2_lista: one iteration of the loop of the running call, up to the
\* call it makes
ListaLaco ==
    /\ prog = "tarefa2_lista"
    /\ chamada # <<>>
    /\ Len(chamada.pilha) > 0
    /\ LET n == Len(chamada.pilha)
           q == chamada.pilha[n]
           saidas == SaidasLista(chamada.ord, q.origem)
       IN  /\ q.i \in 1..Len(saidas)
           /\ LET proximo_destino == saidas[q.i][2]
                  peso == saidas[q.i][3]
              IN  chamada' =
                    IF proximo_destino \in q.visitados
                    THEN [chamada EXCEPT !.pilha[n].i = q.i + 1]
                    ELSE [chamada EXCEPT !.pilha =
                            Append(@, T2_quadro(Upper(proximo_destino), Upper(q.destino),
                                                Append(q.caminho_atual,
                                                       <<proximo_destino, peso>>),
                                                q.visitados))]
    /\ UNCHANGED <<prog, grafo, ret, inseridas, ordem>>

\* tarefa2_lista: the loop of the running call has ended, it returns caminhos
ListaSai ==
    /\ prog = "tarefa2_lista"
    /\ chamada # <<>>
    /\ Len(chamada.pilha) > 0
    /\ LET n == Len(chamada.pilha)
           q == chamada.pilha[n]
       IN  /\ q.i > Len(SaidasLista(chamada.ord, q.origem))
           /\ chamada' = T2_retorna(chamada, q.caminhos)
    /\ UNCHANGED <<prog, grafo, ret, inseridas, ordem>>

\* tarefa2_matriz: one iteration of the loop of the running call over the
\* row of origem, up to the call it makes
MatrizLaco ==
    /\ prog = "tarefa2_matriz"
    /\ chamada # <<>>
    /\ Len(chamada.pilha) > 0
    /\ LET n == Len(chamada.pilha)
           q == chamada.pilha[n]
           linha == OrdemDaLinha(ordem, q.origem)
       IN  /\ q.i \in 1..Len(linha)
           /\ LET proximo_destino == linha[q.i]
                  peso == grafo[q.origem][proximo_destino]
              IN  chamada' =
                    IF peso = None \/ proximo_destino \in q.visitados
                    THEN [chamada EXCEPT !.pilha[n].i = q.i + 1]
                    ELSE [chamada EXCEPT !.pilha =
                            Append(@, T2_quadro(proximo_destino, q.destino,
                                                Append(q.caminho_atual,
                                                       <<proximo_destino, peso[1]>>),
                                                q.visitados))]
    /\ UNCHANGED <<prog, grafo, ret, inseridas, ordem>>

\* tarefa2_matriz: the loop of the running call has ended, it returns
\* caminhos
MatrizSai ==
    /\ prog = "tarefa2_matriz"
    /\ chamada # <<>>
    /\ Len(chamada.pilha) > 0
    /\ LET n == Len(chamada.pilha)
           q == chamada.pilha[n]
       IN  /\ q.i > Len(OrdemDaLinha(ordem, q.origem))
           /\ chamada' = T2_retorna(chamada, q.caminhos)
    /\ UNCHANGED <<prog, grafo, ret, inseridas, ordem>>

\* the first call has returned
T2Retorno ==
    /\ prog \in {"tarefa2_lista", "tarefa2_matriz"}
    /\ chamada # <<>>
    /\ Len(chamada.pilha) = 0
    /\ ret' = [op |-> "calcular_caminhos_possiveis", args |-> chamada.args,
               out |-> "return", val |-> chamada.retorno[1]]
    /\ chamada' = <<>>
    /\ UNCHANGED <<prog, grafo, inseridas, ordem>>

\* ================================================================ main.py
\* Grafo.criar_vertice
Main_criar_vertice(gr, vertice) ==
    IF vertice \notin DOMAIN gr THEN DictSet(gr, vertice, <<>>) ELSE gr

\* Grafo.adicionar_aresta: the graph after the call and the exception raised
Main_adicionar_aresta(gr, origem, destino) ==
    IF origem \notin DOMAIN gr THEN [grafo |-> gr, exc |-> <<"KeyError">>]
    ELSE LET g1 == [gr EXCEPT ![origem] = Append(@, destino)]
         IN  IF destino \notin DOMAIN g1
             THEN [grafo |-> g1, exc |-> <<"KeyError">>]
             ELSE [grafo |-> [g1 EXCEPT ![destino] = Append(@, origem)],
                   exc |-> <<>>]

\* Grafo.listar_vizinhos: dict.get
Main_listar_vizinhos(gr, vertice) ==
    IF vertice \in DOMAIN gr
    THEN [out |-> "return", val |-> <<"list", gr[vertice]>>]
    ELSE [out |-> "return", val |-> <<"None">>]

\* g.criar_vertice(vertice)
MainCriarVertice(vertice) ==
    /\ prog = "main"
    /\ grafo' = Main_criar_vertice(grafo, vertice)
    /\ ret' = Ok("criar_vertice")
    /\ UNCHANGED <<prog, inseridas, ordem, chamada>>

\* g.adicionar_aresta(origem, destino)
MainAdicionarAresta(origem, destino) ==
    /\ prog = "main"
    /\ SumLen(grafo, DOMAIN grafo) < 2 * MaxArestas
    /\ LET r == Main_adicionar_aresta(grafo, origem, destino)
       IN  /\ grafo' = r.grafo
           /\ ret' = IF r.exc = <<>> THEN Ok("adicionar_aresta")
                     ELSE Raise("adicionar_aresta", r.exc[1])
    /\ UNCHANGED <<prog, inseridas, ordem, chamada>>

\* g.listar_vizinhos(vertice)
MainListarVizinhos(vertice) ==
    /\ prog = "main"
    /\ ret' = [op |-> "listar_vizinhos"] @@ Main_listar_vizinhos(grafo, vertice)
    /\ UNCHANGED <<prog, grafo, inseridas, ordem, chamada>>

\* =============================================================== aula1.py
\* Grafo.criar_vertice
Aula1_criar_vertice(gr, vertice) == DictSet(gr, vertice, {})

\* Grafo.adicionar_aresta: the graph after the call and the exception raised
Aula1_adicionar_aresta(gr, origem, destino) ==
    IF origem \notin DOMAIN gr THEN [grafo |-> gr, exc |-> <<"KeyError">>]
    ELSE LET g1 == [gr EXCEPT ![origem] = @ \cup {destino}]
         IN  IF destino \notin DOMAIN g1
             THEN [grafo |-> g1, exc |-> <<"KeyError">>]
             ELSE [grafo |-> [g1 EXCEPT ![destino] = @ \cup {origem}],
                   exc |-> <<>>]

\* Grafo.listar_vizinhos: dict.get
Aula1_listar_vizinhos(gr, vertice) ==
    IF vertice \in DOMAIN gr
    THEN [out |-> "return", val |-> <<"set", gr[vertice]>>]
    ELSE [out |-> "return", val |-> <<"None">>]

\* g.criar_vertice(vertice)
Aula1CriarVertice(vertice) ==
    /\ prog = "aula1"
    /\ grafo' = Aula1_criar_vertice(grafo, vertice)
    /\ ret' = Ok("criar_vertice")
    /\ UNCHANGED <<prog, inseridas, ordem, chamada>>

\* g.adicionar_aresta(origem, destino)
Aula1AdicionarAresta(origem, destino) ==
    /\ prog = "aula1"
    /\ LET r == Aula1_adicionar_aresta(grafo, origem, destino)
       IN  /\ grafo' = r.grafo
           /\ ret' = IF r.exc = <<>> THEN Ok("adicionar_aresta")
                     ELSE Raise("adicionar_aresta", r.exc[1])
    /\ UNCHANGED <<prog, inseridas, ordem, chamada>>

\* g.listar_vizinhos(vertice)
Aula1ListarVizinhos(vertice) ==
    /\ prog = "aula1"
    /\ ret' = [op |-> "listar_vizinhos"] @@ Aula1_listar_vizinhos(grafo, vertice)
    /\ UNCHANGED <<prog, grafo, inseridas, ordem, chamada>>

\* ======================================================= trabalho1/3p1.py
\* Grafo.add_aresta
Trabalho1_add_aresta(gr, v1, v2) ==
    LET g1 == IF v1 \notin DOMAIN gr THEN DictSet(gr, v1, {}) ELSE gr
        g2 == IF v2 \notin DOMAIN g1 THEN DictSet(g1, v2, {}) ELSE g1
        g3 == [g2 EXCEPT ![v1] = @ \cup {v2}]
    IN  [g3 EXCEPT ![v2] = @ \cup {v1}]

RECURSIVE Trabalho1_dfs(_, _, _, _, _)
RECURSIVE Trabalho1_dfs_loop(_, _, _, _, _, _)
\* dfs(grafo, origem, visitados, contador): the counter it returns and the
\* list visitados after it.  ord lists the vertices: the loop over a set
\* grafo[origem] takes its elements in the order of ord.
Trabalho1_dfs(gr, origem, visitados, contador, ord) ==
    Trabalho1_dfs_loop(gr, origem, Append(visitados, origem), contador + 1, ord, 1)

\* the loop of dfs from the i-th element of ord on
Trabalho1_dfs_loop(gr, origem, visitados, contador, ord, i) ==
    IF i > Len(ord) THEN [contador |-> contador, visitados |-> visitados]
    ELSE IF ord[i] \in gr[origem] /\ ~(\E j \in 1..Len(visitados) : visitados[j] = ord[i])
    THEN LET r == Trabalho1_dfs(gr, ord[i], visitados, contador, ord)
         IN  Trabalho1_dfs_loop(gr, origem, r.visitados, r.contador, ord, i + 1)
    ELSE Trabalho1_dfs_loop(gr, origem, visitados, contador, ord, i + 1)

\* Grafo.eh_conexo when random.choice picks inicio: the counter of dfs is
\* the condition of the if
Trabalho1_eh_conexo(gr, inicio, ord) ==
    IF Trabalho1_dfs(gr, inicio, <<>>, 0, ord).contador # 0 THEN TRUE ELSE FALSE

\* number of edges stored in the dict of sets
NumArestasTrabalho1(gr) ==
    Cardinality({a \in SUBSET DOMAIN gr : \E u \in a, v \in a : a = {u, v} /\ v \in gr[u]})

\* g.add_aresta(v1, v2)
Trabalho1AddAresta(v1, v2) ==
    /\ prog = "trabalho1_3p1"
    /\ grafo' = Trabalho1_add_aresta(grafo, v1, v2)
    /\ ret' = Ok("add_aresta")
    /\ UNCHANGED <<prog, inseridas, ordem, chamada>>

\* g.eh_conexo() on a graph with vertices: random.choice picks inicio
Trabalho1EhConexo(inicio, ord) ==
    /\ prog = "trabalho1_3p1"
    /\ inicio \in DOMAIN grafo
    /\ ret' = Return("eh_conexo", Trabalho1_eh_conexo(grafo, inicio, ord))
    /\ UNCHANGED <<prog, grafo, inseridas, ordem, chamada>>

\* g.eh_conexo() on a graph without vertices: random.choice of an empty list
Trabalho1EhConexoVazio ==
    /\ prog = "trabalho1_3p1"
    /\ DOMAIN grafo = {}
    /\ ret' = Raise("eh_conexo", "IndexError")
    /\ UNCHANGED <<prog, grafo, inseridas, ordem, chamada>>

\* ================================================================ system
Init ==
    /\ prog \in Programas
    /\ grafo = IF prog = "tarefa1" THEN GrafoT1 ELSE <<>>
    /\ ret = Ok("init")
    /\ inseridas = {}
    /\ ordem = <<>>
    /\ chamada = <<>>

Next ==
    \/ prog = "tarefa1" /\ \E v \in Nomes2 : VerticesCriar(v)
    \/ /\ prog = "tarefa1"
       /\ \E n \in 1..MaxTuplas :
            /\ Cardinality(inseridas) + n <= MaxArestas
            /\ \E to \in ListasDeTuplas(n) : G(to)
    \/ /\ prog = "dfs_bfs"
       /\ SumLen(grafo, DOMAIN grafo) < 2 * MaxArestas
       /\ \E o, d \in Nomes2, p \in Pesos : DfsBfsAddAresta(o, d, p)
    \/ prog = "dfs_bfs" /\ \E v1, v2 \in Nomes2 : DfsBfsW(v1, v2)
    \/ /\ prog = "propriedades_grafo"
       /\ SumLen(grafo, DOMAIN grafo) < 2 * MaxArestas
       /\ \E v1, v2 \in Nomes : PropAddAresta(v1, v2)
    \/ prog = "tarefa2_lista" /\ \E v \in NomesLista : ListaAddVertice(v)
    \/ /\ prog = "tarefa2_lista"
       /\ NumArestas(grafo) < MaxArestas
       /\ \E o, d \in NomesLista, p \in Pesos : ListaAddAresta(o, d, p)
    \/ prog = "tarefa2_lista" /\ \E o, d \in NomesLista : ListaObterPeso(o, d)
    \/ prog = "tarefa2_matriz" /\ \E v \in Nomes2 : MatrizAddVertice(v)
    \/ /\ prog = "tarefa2_matriz"
       /\ NumCelulas(grafo) < MaxArestas
       /\ \E o, d \in Nomes2, p \in Pesos : MatrizAddAresta(o, d, p)
    \/ prog = "tarefa2_matriz" /\ \E o, d \in Nomes2 : MatrizObterPeso(o, d)
    \/ prog = "main" /\ \E v \in Nomes2 : MainCriarVertice(v)
    \/ prog = "main" /\ \E o, d \in Nomes2 : MainAdicionarAresta(o, d)
    \/ prog = "main" /\ \E v \in Nomes2 : MainListarVizinhos(v)
    \/ prog = "aula1" /\ \E v \in Nomes : Aula1CriarVertice(v)
    \/ prog = "aula1" /\ \E o, d \in Nomes : Aula1AdicionarAresta(o, d)
    \/ prog = "aula1" /\ \E v \in Nomes : Aula1ListarVizinhos(v)

Spec == Init /\ [][Next]_vars

\* ------------------------------------------------------ propriedades_grafo
\* propriedades_grafo.py with its three checks.  The edges add_aresta is
\* called with: two triangles A-B-C and C-D-E, and a loop.
ArestasProp ==
    {<<"A", "B">>, <<"B", "C">>, <<"C", "A">>,
     <<"C", "D">>, <<"D", "E">>, <<"E", "C">>, <<"A", "A">>}

InitProp ==
    /\ prog = "propriedades_grafo"
    /\ grafo = <<>>
    /\ ret = Ok("init")
    /\ inseridas = {}
    /\ ordem = <<>>
    /\ chamada = <<>>

NextProp ==
    \/ /\ Cardinality(inseridas) < MaxArestasProp
       /\ \E a \in ArestasProp : PropAddAresta(a[1], a[2])
    \/ PropEhConexo
    \/ PropEhCiclico
    \/ PropEhPlano

SpecProp == InitProp /\ [][NextProp]_vars

\* ----------------------------------------------------------------- tarefa1
\* tarefa1.py with its path enumeration, on three vertices.  g is called with
\* one tuple at a time.
TuplasTarefa1 == (Nomes \X Nomes) \cup {<<"A", "B", MaxPeso>>}

InitTarefa1 ==
    /\ prog = "tarefa1"
    /\ grafo = GrafoT1
    /\ ret = Ok("init")
    /\ inseridas = {}
    /\ ordem = <<>>
    /\ chamada = <<>>

NextTarefa1 ==
    \/ \E v \in Nomes : VerticesCriar(v)
    \/ /\ Cardinality(inseridas) < MaxArestasTarefa1
       /\ \E tup \in TuplasTarefa1 : G(<<tup>>)
    \/ \E v1, v2 \in Nomes, ord \in Ordens(grafo.vertices) : Caminhos(v1, v2, ord)
    \/ \E v1, v2 \in Nomes, ord \in Ordens(grafo.vertices) : SomaPesos(v1, v2, ord)
    \/ \E v1, v2 \in Nomes, ord \in Ordens(grafo.vertices) : SomaComprimentos(v1, v2, ord)

SpecTarefa1 == InitTarefa1 /\ [][NextTarefa1]_vars

\* ------------------------------------------ eh_conexo and the path search
\* The same undirected edges given to propriedades_grafo.Grafo and to the
\* Grafo of tarefa1, with the connectivity check made on the first and the
\* path enumeration on the second.  grafo holds the two objects, ordem the
\* key order of the dict of the first.
ArestasConexo ==
    {<<"A", "B">>, <<"B", "C">>, <<"C", "D">>, <<"D", "A">>, <<"B", "B">>}

\* the pairs of vertices the path enumeration is called with
ParesConexo == {<<"A", "C">>, <<"C", "A">>, <<"B", "D">>, <<"D", "D">>}

InitConexo ==
    /\ prog = "conexo_caminhos"
    /\ grafo = [propriedades |-> <<>>, tarefa1 |-> GrafoT1]
    /\ ret = Ok("init")
    /\ inseridas = {}
    /\ ordem = <<>>
    /\ chamada = <<>>

\* the edge v1 - v2 is given to both graphs: add_aresta(v1, v2) on the
\* first; vertices.criar(v1), vertices.criar(v2) and g(grafo, (v1, v2)) on
\* the second
ConexoAddAresta(v1, v2) ==
    /\ prog = "conexo_caminhos"
    /\ grafo' =
          [propriedades |-> Prop_add_aresta(grafo.propriedades, v1, v2),
           tarefa1 |-> g(ListaDeVerticesCriar(ListaDeVerticesCriar(grafo.tarefa1, v1), v2),
                         <<<<v1, v2>>>>).grafo]
    /\ ordem' = InserirChave(InserirChave(ordem, v1), v2)
    /\ inseridas' = inseridas \cup {<<Cardinality(inseridas) + 1, v1, v2>>}
    /\ ret' = Ok("add_aresta")
    /\ UNCHANGED <<prog, chamada>>

\* eh_conexo() on the first graph
ConexoEhConexo ==
    /\ prog = "conexo_caminhos"
    /\ ret' = Return("eh_conexo", Prop_eh_conexo(grafo.propriedades, ordem))
    /\ UNCHANGED <<prog, grafo, inseridas, ordem, chamada>>

\* calcular_possibilidades_caminhos(v1, v2) on the second graph
ConexoCaminhos(v1, v2, ord) ==
    /\ prog = "conexo_caminhos"
    /\ ret' = [op |-> "calcular_possibilidades_caminhos", out |-> "return",
               val |-> <<Calcular_possibilidades_caminhos(grafo.tarefa1, v1, v2, ord)>>,
               args |-> <<v1, v2>>]
    /\ UNCHANGED <<prog, grafo, inseridas, ordem, chamada>>

NextConexo ==
    \/ /\ Cardinality(inseridas) < MaxArestasConexo
       /\ \E a \in ArestasConexo : ConexoAddAresta(a[1], a[2])
    \/ ConexoEhConexo
    \/ \E a \in ParesConexo, ord \in Ordens(grafo.tarefa1.vertices) :
          ConexoCaminhos(a[1], a[2], ord)

SpecConexo == InitConexo /\ [][NextConexo]_vars

\* ----------------------------------------------------------- trabalho1/3p1
NomesTrabalho1 == {"a", "b", "c", "d"}

InitTrabalho1 ==
    /\ prog = "trabalho1_3p1"
    /\ grafo = <<>>
    /\ ret = Ok("init")
    /\ inseridas = {}
    /\ ordem = <<>>
    /\ chamada = <<>>

NextTrabalho1 ==
    \/ /\ prog = "trabalho1_3p1"
       /\ NumArestasTrabalho1(grafo) < MaxArestasTrabalho1
       /\ \E v1, v2 \in NomesTrabalho1 : Trabalho1AddAresta(v1, v2)
    \/ \E inicio \in DOMAIN grafo, ord \in Ordens(DOMAIN grafo) :
          Trabalho1EhConexo(inicio, ord)
    \/ Trabalho1EhConexoVazio

SpecTrabalho1 == InitTrabalho1 /\ [][NextTrabalho1]_vars

\* ---------------------------------------------------------------- tarefa2
\* The two tarefa2 programs with their path enumeration.
NomesT2 == {"A", "B", "C", "a"}

InitT2 ==
    /\ prog \in {"tarefa2_lista", "tarefa2_matriz"}
    /\ grafo = <<>>
    /\ ret = Ok("init")
    /\ inseridas = {}
    /\ ordem = <<>>
    /\ chamada = <<>>

NextT2 ==
    \/ prog = "tarefa2_lista" /\ \E v \in NomesT2 : ListaAddVertice(v)
    \/ /\ prog = "tarefa2_lista"
       /\ NumArestas(grafo) < MaxArestas
       /\ \E o, d \in NomesT2, p \in Pesos : ListaAddAresta(o, d, p)
    \/ /\ prog = "tarefa2_lista"
       /\ \E o, d \in NomesT2, ord \in Ordens(ArestasLista(grafo)) :
             ListaCaminhos(o, d, ord)
    \/ prog = "tarefa2_matriz" /\ \E v \in Nomes : MatrizAddVertice(v)
    \/ /\ prog = "tarefa2_matriz"
       /\ NumCelulas(grafo) < MaxArestas
       /\ \E o, d \in Nomes, p \in Pesos : MatrizAddAresta(o, d, p)
    \/ prog = "tarefa2_matriz" /\ \E o, d \in Nomes : MatrizCaminhos(o, d)

SpecT2 == InitT2 /\ [][NextT2]_vars

\* ------------------------------------------------------ path enumeration
\* The three programs that enumerate paths, on three vertices.  The edges
\* add_aresta of the two tarefa2 programs is called with: two edges from A
\* to B of different weights, and edges that give two ways from A to C and
\* from C to A.
ArestasCaminhos ==
    {<<"A", "B", 1>>, <<"A", "B", MaxPeso>>, <<"B", "C", 1>>,
     <<"A", "C", 1>>, <<"C", "B", 1>>, <<"B", "A", 1>>}

InitCaminhos ==
    /\ prog \in {"tarefa1", "tarefa2_lista", "tarefa2_matriz"}
    /\ grafo = IF prog = "tarefa1" THEN GrafoT1 ELSE <<>>
    /\ ret = Ok("init")
    /\ inseridas = {}
    /\ ordem = <<>>
    /\ chamada = <<>>

NextCaminhos ==
    \/ prog = "tarefa1" /\ \E v \in Nomes : VerticesCriar(v)
    \/ /\ prog = "tarefa1"
       /\ Cardinality(inseridas) < MaxArestasTarefa1
       /\ \E tup \in TuplasTarefa1 : G(<<tup>>)
    \/ /\ prog = "tarefa1"
       /\ \E v1, v2 \in Nomes, ord \in Ordens(grafo.vertices) : Caminhos(v1, v2, ord)
    \/ prog = "tarefa2_lista" /\ \E v \in Nomes : ListaAddVertice(v)
    \/ /\ prog = "tarefa2_lista"
       /\ NumArestas(grafo) < MaxArestasCaminhos
       /\ \E a \in ArestasCaminhos : ListaAddAresta(a[1], a[2], a[3])
    \/ /\ prog = "tarefa2_lista"
       /\ \E o, d \in Nomes, ord \in Ordens(ArestasLista(grafo)) :
             ListaCaminhos(o, d, ord)
    \/ prog = "tarefa2_matriz" /\ \E v \in Nomes : MatrizAddVertice(v)
    \/ /\ prog = "tarefa2_matriz"
       /\ NumCelulas(grafo) < MaxArestasCaminhos
       /\ \E a \in ArestasCaminhos : MatrizAddAresta(a[1], a[2], a[3])
    \/ prog = "tarefa2_matriz" /\ \E o, d \in Nomes : MatrizCaminhos(o, d)

SpecCaminhos == InitCaminhos /\ [][NextCaminhos]_vars

\* ------------------------------------------------------------------ prim
\* dfs_bfs.py with prim followed iteration by iteration.  The edges
\* add_aresta is called with, on the labels of the program: a triangle with
\* a heavy side, a second edge between b and c, a loop and an edge to d.
ArestasPrim ==
    {<<"a", "c", 1>>, <<"c", "b", 1>>, <<"a", "b", MaxPeso>>,
     <<"b", "c", MaxPeso>>, <<"a", "a", 1>>, <<"c", "d", 1>>}

\* the roots prim is called with
RaizesPrim == {"a", "b", "c", "d"}

InitPrim ==
    /\ prog = "dfs_bfs"
    /\ grafo = <<>>
    /\ ret = Ok("init")
    /\ inseridas = {}
    /\ ordem = <<>>
    /\ chamada = <<>>

NextPrim ==
    \/ /\ chamada = <<>>
       /\ SumLen(grafo, DOMAIN grafo) < 2 * MaxArestasPrim
       /\ \E a \in ArestasPrim : DfsBfsAddAresta(a[1], a[2], a[3])
    \/ \E r \in RaizesPrim : PrimChamada(r)
    \/ PrimIteracao
    \/ PrimRetorno

SpecPrim == InitPrim /\ [][NextPrim]_vars

\* ------------------------------------------------------------ traversals
\* Every program with a traversal, each with the insertions and the
\* traversals of its own specification above.
InitTravessias ==
    /\ prog \in {"propriedades_grafo", "tarefa1", "tarefa2_lista", "tarefa2_matriz",
                 "dfs_bfs"}
    /\ grafo = IF prog = "tarefa1" THEN GrafoT1 ELSE <<>>
    /\ ret = Ok("init")
    /\ inseridas = {}
    /\ ordem = <<>>
    /\ chamada = <<>>

NextTravessias ==
    \/ /\ prog = "propriedades_grafo"
       /\ Cardinality(inseridas) < MaxArestasProp
       /\ \E a \in ArestasProp : PropAddAresta(a[1], a[2])
    \/ prog = "propriedades_grafo" /\ PropEhConexo
    \/ prog = "propriedades_grafo" /\ PropEhCiclico
    \/ prog = "propriedades_grafo" /\ PropEhPlano
    \/ prog = "tarefa1" /\ \E v \in Nomes : VerticesCriar(v)
    \/ /\ prog = "tarefa1"
       /\ Cardinality(inseridas) < MaxArestasTarefa1
       /\ \E tup \in TuplasTarefa1 : G(<<tup>>)
    \/ /\ prog = "tarefa1"
       /\ \E v1, v2 \in Nomes, ord \in Ordens(grafo.vertices) : Caminhos(v1, v2, ord)
    \/ prog = "tarefa2_lista" /\ \E v \in Nomes : ListaAddVertice(v)
    \/ /\ prog = "tarefa2_lista"
       /\ NumArestas(grafo) < MaxArestasCaminhos
       /\ \E a \in ArestasCaminhos : ListaAddAresta(a[1], a[2], a[3])
    \/ /\ prog = "tarefa2_lista"
       /\ \E o, d \in Nomes, ord \in Ordens(ArestasLista(grafo)) :
             ListaCaminhos(o, d, ord)
    \/ prog = "tarefa2_matriz" /\ \E v \in Nomes : MatrizAddVertice(v)
    \/ /\ prog = "tarefa2_matriz"
       /\ NumCelulas(grafo) < MaxArestasCaminhos
       /\ \E a \in ArestasCaminhos : MatrizAddAresta(a[1], a[2], a[3])
    \/ prog = "tarefa2_matriz" /\ \E o, d \in Nomes : MatrizCaminhos(o, d)
    \/ /\ prog = "dfs_bfs"
       /\ chamada = <<>>
       /\ SumLen(grafo, DOMAIN grafo) < 2 * MaxArestasPrim
       /\ \E a \in ArestasPrim : DfsBfsAddAresta(a[1], a[2], a[3])
    \/ \E r \in RaizesPrim : PrimChamada(r)
    \/ PrimIteracao
    \/ PrimRetorno

SpecTravessias == InitTravessias /\ [][NextTravessias]_vars

\* ------------------------------------------------------- tarefa1/tarefa1
\* tarefa1/tarefa1.py with its shortest-path method, on three vertices.
InitMenorDistancia ==
    /\ prog = "tarefa1/tarefa1"
    /\ grafo = GrafoT1
    /\ ret = Ok("init")
    /\ inseridas = {}
    /\ ordem = <<>>
    /\ chamada = <<>>

NextMenorDistancia ==
    \/ \E v \in Nomes : VerticesCriar(v)
    \/ /\ Cardinality(inseridas) < MaxArestasTarefa1
       /\ \E tup \in TuplasTarefa1 : G(<<tup>>)
    \/ \E origem, destino \in Nomes, algoritmo \in {None, <<"dijkstra">>} :
          MenorDistancia(origem, destino, algoritmo)

SpecMenorDistancia == InitMenorDistancia /\ [][NextMenorDistancia]_vars

\* ------------------------------------------------ searches call by call
\* The depth-first searches of tarefa1, propriedades_grafo, tarefa2_lista and
\* tarefa2_matriz followed call by call.  A call that has started goes on
\* until it returns: the steps of a running call are taken under weak
\* fairness.
ParesPilha == {<<"A", "C">>, <<"C", "A">>, <<"B", "B">>}

\* the vertices calcular_caminhos_possiveis is called with
ParesPilhaT2 == {<<"A", "C">>, <<"B", "B">>, <<"A", "b">>}

\* the tuples g is called with
TuplasPilha == {<<"A", "B">>, <<"B", "C">>, <<"A", "C">>, <<"A", "B", MaxPeso>>}

\* the edges add_aresta of propriedades_grafo is called with
ArestasPilha == {<<"A", "B">>, <<"B", "C">>, <<"C", "A">>, <<"C", "D">>, <<"A", "A">>}

InitPilha ==
    /\ prog \in {"tarefa1", "propriedades_grafo", "tarefa2_lista", "tarefa2_matriz"}
    /\ grafo = IF prog = "tarefa1" THEN GrafoT1 ELSE <<>>
    /\ ret = Ok("init")
    /\ inseridas = {}
    /\ ordem = <<>>
    /\ chamada = <<>>

\* a step of the call that is running
PassoPilha ==
    \/ DfsEntra
    \/ DfsLaco
    \/ DfsSai
    \/ CaminhosRetorno
    \/ ConexoLaco
    \/ ConexoSai
    \/ ConexoRetorno
    \/ CiclicoExterno
    \/ CicloLaco
    \/ CicloSai
    \/ CicloPropaga
    \/ CiclicoRetorno
    \/ T2Entra
    \/ ListaLaco
    \/ ListaSai
    \/ MatrizLaco
    \/ MatrizSai
    \/ T2Retorno

NextPilha ==
    \/ prog = "tarefa1" /\ chamada = <<>> /\ \E v \in Nomes : VerticesCriar(v)
    \/ /\ prog = "tarefa1" /\ chamada = <<>>
       /\ Cardinality(inseridas) < MaxArestasPilha
       /\ \E tup \in TuplasPilha : G(<<tup>>)
    \/ /\ prog = "tarefa1"
       /\ \E a \in ParesPilha, ord \in Ordens(grafo.vertices) :
             CaminhosChamada(a[1], a[2], ord)
    \/ /\ prog = "propriedades_grafo" /\ chamada = <<>>
       /\ Cardinality(inseridas) < MaxArestasPilha
       /\ \E a \in ArestasPilha : PropAddAresta(a[1], a[2])
    \/ ConexoChamada
    \/ CiclicoChamada
    \/ prog = "tarefa2_lista" /\ chamada = <<>> /\ \E v \in Nomes : ListaAddVertice(v)
    \/ /\ prog = "tarefa2_lista" /\ chamada = <<>>
       /\ NumArestas(grafo) < MaxArestasPilha
       /\ \E a \in ArestasCaminhos : ListaAddAresta(a[1], a[2], a[3])
    \/ /\ prog = "tarefa2_lista"
       /\ \E a \in ParesPilhaT2, ord \in Ordens(ArestasLista(grafo)) :
             T2Chamada(a[1], a[2], ord)
    \/ prog = "tarefa2_matriz" /\ chamada = <<>> /\ \E v \in Nomes : MatrizAddVertice(v)
    \/ /\ prog = "tarefa2_matriz" /\ chamada = <<>>
       /\ NumCelulas(grafo) < MaxArestasPilha
       /\ \E a \in ArestasCaminhos : MatrizAddAresta(a[1], a[2], a[3])
    \/ prog = "tarefa2_matriz" /\ \E a \in ParesPilhaT2 : T2Chamada(a[1], a[2], <<>>)
    \/ PassoPilha

SpecPilha == InitPilha /\ [][NextPilha]_vars /\ WF_vars(PassoPilha)

\* ================================================================ claims
\* the half-edge u -> v is in the arc map of tarefa1
TemArco(u, v) == <<u, v>> \in DOMAIN grafo.arcos

\* how many times the list of u holds the entry e (0 when u is no key)
Mult(u, e) == IF u \in DOMAIN grafo THEN Count(grafo[u], e) ELSE 0

\* C1: in the undirected programs (g of tarefa1, Graph.add_aresta of dfs_bfs,
\* Grafo.add_aresta of propriedades_grafo) the half-edge (u,v) is stored iff
\* (v,u) is stored, as many times and with the same weight.
C1_Simetria ==
    /\ prog = "tarefa1" =>
         \A u, v \in Nomes2 :
            /\ TemArco(u, v) <=> TemArco(v, u)
            /\ TemArco(u, v) =>
                 grafo.arcos[<<u, v>>].peso = grafo.arcos[<<v, u>>].peso
    /\ prog = "dfs_bfs" =>
         \A u, v \in Nomes2, p \in Pesos : Mult(u, <<v, p>>) = Mult(v, <<u, p>>)
    /\ prog = "propriedades_grafo" =>
         \A u, v \in Nomes : Mult(u, v) = Mult(v, u)

\* C1 witness: an edge between two different vertices was inserted twice
C1_Witness ==
    /\ prog = "dfs_bfs"
    /\ \E u, v \in Nomes2, p \in Pesos : u # v /\ Mult(u, <<v, p>>) = 2

C3_Atomica ==
    [][ /\ prog \in {"main", "aula1"} =>
          \A o, d \in Nomes :
             ( /\ o \notin DOMAIN grafo \/ d \notin DOMAIN grafo
               /\ MainAdicionarAresta(o, d) \/ Aula1AdicionarAresta(o, d) )
             => grafo' = grafo
      ]_vars

\* C4: a call of g with several tuples that raises leaves the arc map as it
\* was before the call.
C4_GAtomica ==
    [][ (prog = "tarefa1" /\ ret'.op = "g" /\ ret'.out = "raise") =>
          \A n \in 2..MaxTuplas : \A to \in ListasDeTuplas(n) :
             G(to) => grafo'.arcos = grafo.arcos
      ]_vars

\* C5: every vertex that is origin or destination of a stored edge is in the
\* vertex set (tarefa1, tarefa2_lista, tarefa2_matriz); no edge is stored
\* while the vertex set is empty.
C5_VerticesDasArestas ==
    /\ prog = "tarefa1" =>
         /\ \A a \in DOMAIN grafo.arcos :
               /\ a[1] \in grafo.vertices /\ a[2] \in grafo.vertices
               /\ grafo.arcos[a].origem \in grafo.vertices
               /\ grafo.arcos[a].destino \in grafo.vertices
         /\ grafo.vertices = {} => DOMAIN grafo.arcos = {}
    /\ prog = "tarefa2_lista" =>
         \A o \in DOMAIN grafo : \A e \in grafo[o] : e[1] \in DOMAIN grafo
    /\ prog = "tarefa2_matriz" =>
         \A o \in DOMAIN grafo : \A d \in DOMAIN grafo[o] :
            grafo[o][d] # None => d \in DOMAIN grafo

\* C5 witness: arcs are stored while some label is not a vertex
C5_Witness ==
    /\ prog = "tarefa1"
    /\ DOMAIN grafo.arcos # {}
    /\ grafo.vertices # Nomes2

\* C6: creating a vertex that already exists changes nothing: criar_vertice of
\* aula1.py and main.py, add_vertice of tarefa2_matriz.
C6_CriarIdempotente ==
    [][ /\ prog \in {"aula1", "main", "tarefa2_matriz"} =>
          \A v \in Nomes :
             ( /\ v \in DOMAIN grafo
               /\ Aula1CriarVertice(v) \/ MainCriarVertice(v) \/ MatrizAddVertice(v) )
             => grafo' = grafo
      ]_vars

\* C7: add_vertice of tarefa2_lista changes nothing when the vertex it would
\* store, label.upper(), is already present.
C7_AddVerticeIdempotente ==
    [][ /\ prog = "tarefa2_lista" =>
          \A v \in NomesLista :
             (Upper(v) \in DOMAIN grafo /\ ListaAddVertice(v)) => grafo' = grafo
      ]_vars

\* C8: listar_vizinhos of a label that is no vertex raises an error.
C8_VizinhosDesconhecido ==
    [][ /\ prog \in {"main", "aula1"} =>
          \A v \in Nomes :
             ( /\ v \notin DOMAIN grafo
               /\ MainListarVizinhos(v) \/ Aula1ListarVizinhos(v) )
             => ret'.out = "raise"
      ]_vars

\* the weight lookup u -> v gives p: w(g, u, v) in dfs_bfs,
\* arcos[(u, v)].peso in tarefa1
PesoEh(u, v, p) ==
    IF prog = "dfs_bfs"
    THEN w(grafo, u, v) = [out |-> "return", val |-> <<p>>]
    ELSE TemArco(u, v) /\ grafo.arcos[<<u, v>>].peso = p

\* C9 as stated: every inserted edge (u,v,w) is looked up as w in both
\* directions, also when the pair was inserted with several weights.
C9_Original ==
    prog \in {"tarefa1", "dfs_bfs"} =>
       \A e \in inseridas : PesoEh(e[1], e[2], e[3]) /\ PesoEh(e[2], e[1], e[3])

\* the pair {u,v} of the inserted edge e was only ever inserted with e's weight
UmSoPeso(e) ==
    \A f \in inseridas : {f[1], f[2]} = {e[1], e[2]} => f[3] = e[3]

\* C9: every inserted edge (u,v,w) whose pair {u,v} was inserted with no other
\* weight is looked up as w in both directions.
C9_PesoIdaEVolta ==
    prog \in {"tarefa1", "dfs_bfs"} =>
       \A e \in inseridas :
          UmSoPeso(e) => PesoEh(e[1], e[2], e[3]) /\ PesoEh(e[2], e[1], e[3])

\* C9 witness: an edge of weight 2 between two different vertices of tarefa1,
\* inserted with that weight only
C9_Witness ==
    /\ prog = "tarefa1"
    /\ \E e \in inseridas : e[1] # e[2] /\ e[3] = 2 /\ UmSoPeso(e)

\* C10: the weight lookup of a non-edge between two vertices raises (list,
\* matrix, dfs_bfs); the matrix lookup raises when the origin row is absent or
\* the cell is None and otherwise returns the weight last written to the cell.
C10_PesoDeNaoAresta ==
    [][ /\ (prog = "tarefa2_lista" /\ ret'.op = "obter_peso") =>
             \A o, d \in NomesLista :
                ( /\ o \in DOMAIN grafo /\ d \in DOMAIN grafo
                  /\ \A p \in Pesos : <<d, p>> \notin grafo[o]
                  /\ ListaObterPeso(o, d) )
                => ret'.out = "raise"
        /\ (prog = "dfs_bfs" /\ ret'.op = "w") =>
             \A o, d \in Nomes2 :
                ( /\ o \in DOMAIN grafo /\ d \in DOMAIN grafo
                  /\ \A p \in Pesos : Mult(o, <<d, p>>) = 0
                  /\ DfsBfsW(o, d) )
                => ret'.out = "raise"
        /\ (prog = "tarefa2_matriz" /\ ret'.op = "obter_peso") =>
             \A o, d \in Nomes :
                MatrizObterPeso(o, d) =>
                   IF o \notin DOMAIN grafo THEN ret'.out = "raise"
                   ELSE IF d \notin DOMAIN grafo[o] THEN ret'.out = "raise"
                   ELSE IF grafo[o][d] = None THEN ret'.out = "raise"
                   ELSE ret'.out = "return" /\ ret'.val = grafo[o][d]
        /\ (prog = "tarefa2_matriz" /\ ret'.op = "add_aresta" /\ ret'.out = "ok") =>
             \A o, d \in Nomes, p \in Pesos :
                MatrizAddAresta(o, d, p) =>
                   /\ grafo'[o][d] = Cell(p)
                   /\ \A o2 \in DOMAIN grafo : \A d2 \in DOMAIN grafo[o2] :
                         <<o2, d2>> # <<o, d>> => grafo'[o2][d2] = grafo[o2][d2]
        /\ (prog = "tarefa2_matriz" /\ ret'.op = "add_vertice") =>
             \A v \in Nomes :
                MatrizAddVertice(v) =>
                   \A o2 \in DOMAIN grafo : \A d2 \in DOMAIN grafo[o2] :
                      grafo'[o2][d2] = grafo[o2][d2]
      ]_vars

\* C10 witness: the matrix lookup raised between two vertices of a graph that
\* holds a weight
C10_Witness ==
    /\ prog = "tarefa2_matriz"
    /\ ret.op = "obter_peso" /\ ret.out = "raise"
    /\ \E o, d \in DOMAIN grafo : grafo[o][d] = None
    /\ NumCelulas(grafo) > 0

\* C11: in the adjacency matrix every row has the vertex set as its key set
\* and a cell holds None unless add_aresta wrote it; add_vertice of a new
\* vertex makes only None cells and changes no cell the matrix had.
C11_ChavesDaMatriz ==
    /\ [](prog = "tarefa2_matriz" =>
            /\ \A o \in DOMAIN grafo : DOMAIN grafo[o] = DOMAIN grafo
            /\ \A o \in DOMAIN grafo : \A d \in DOMAIN grafo[o] :
                  grafo[o][d] # None => <<o, d>> \in inseridas)
    /\ [][ (prog = "tarefa2_matriz" /\ ret'.op = "add_vertice") =>
            \A v \in Nomes :
               (v \notin DOMAIN grafo /\ MatrizAddVertice(v)) =>
                  /\ DOMAIN grafo' = (DOMAIN grafo) \cup {v}
                  /\ \A o \in DOMAIN grafo' : \A d \in DOMAIN grafo'[o] :
                        IF o \in DOMAIN grafo /\ d \in DOMAIN grafo[o]
                        THEN grafo'[o][d] = grafo[o][d]
                        ELSE grafo'[o][d] = None
       ]_vars

\* C11 witness: a vertex was added to a matrix that held a weight
C11_Witness ==
    /\ prog = "tarefa2_matriz"
    /\ ret.op = "add_vertice"
    /\ NumCelulas(grafo) > 0
    /\ \E v \in DOMAIN grafo : \A o \in DOMAIN grafo : grafo[o][v] = None /\ grafo[v][o] = None

\* C12: a successful add_aresta(origem, destino, peso) of the matrix variant
\* sets the cell [origem][destino] to peso and leaves every other cell as it
\* was, the reverse cell [destino][origem] included.
C12_SoUmaCelula ==
    [][ (prog = "tarefa2_matriz" /\ ret'.op = "add_aresta" /\ ret'.out = "ok") =>
          \A o, d \in Nomes, p \in Pesos :
             MatrizAddAresta(o, d, p) =>
                /\ DOMAIN grafo' = DOMAIN grafo
                /\ \A o2 \in DOMAIN grafo :
                      /\ DOMAIN grafo'[o2] = DOMAIN grafo[o2]
                      /\ \A d2 \in DOMAIN grafo[o2] :
                            grafo'[o2][d2] =
                               IF <<o2, d2>> = <<o, d>> THEN Cell(p) ELSE grafo[o2][d2]
      ]_vars

\* C12 witness: add_aresta wrote a cell whose reverse cell is None
C12_Witness ==
    /\ prog = "tarefa2_matriz"
    /\ ret.op = "add_aresta" /\ ret.out = "ok"
    /\ \E o, d \in DOMAIN grafo : o # d /\ grafo[o][d] # None /\ grafo[d][o] = None

\* the edges {v1, v2} add_aresta of propriedades_grafo was called with, and
\* their end points
ParesInseridos == {{c[2], c[3]} : c \in inseridas}
VerticesInseridos == UNION ParesInseridos

RECURSIVE Fecho(_)
\* the vertices joined to a vertex of S by inserted edges
Fecho(S) ==
    LET T == S \cup UNION {a \in ParesInseridos : a \cap S # {}}
    IN  IF T = S THEN S ELSE Fecho(T)

\* the vertices reachable from u, and the components of the graph
Alcancaveis(u) == Fecho({u})
Componentes == {Alcancaveis(u) : u \in VerticesInseridos}

\* C13: eh_conexo returns true exactly when every vertex is reachable from
\* every other one over the inserted edges; it is true for the graph with no
\* vertices.
C13_EhConexo ==
    (prog = "propriedades_grafo" /\ ret.op = "eh_conexo") =>
       /\ DOMAIN grafo = VerticesInseridos
       /\ ret.val[1] = (\A u, v \in DOMAIN grafo : v \in Alcancaveis(u))
       /\ DOMAIN grafo = {} => ret.val[1] = TRUE

\* C13 witness: eh_conexo returned false on a graph of two components, the
\* one of the first vertex with three vertices or more
C13_Witness ==
    /\ prog = "propriedades_grafo"
    /\ ret.op = "eh_conexo" /\ ret.val[1] = FALSE
    /\ Cardinality(Alcancaveis(ordem[1])) >= 3

\* the vertices of the dict of sets gr joined to a vertex of S
RECURSIVE FechoAdj(_, _)
FechoAdj(gr, S) ==
    LET T == S \cup UNION {gr[u] : u \in S}
    IN  IF T = S THEN S ELSE FechoAdj(gr, T)

\* C14: on the same undirected edges, eh_conexo is true exactly when the path
\* enumeration returns a path for every ordered pair of different vertices,
\* in whatever order the search goes through the vertex set.
C14_ConexoSseCaminhos ==
    prog = "conexo_caminhos" =>
       /\ DOMAIN grafo.propriedades = grafo.tarefa1.vertices
       /\ Prop_eh_conexo(grafo.propriedades, ordem) =
             (\A u, v \in grafo.tarefa1.vertices :
                 u # v => \A ord \in Ordens(grafo.tarefa1.vertices) :
                             Calcular_possibilidades_caminhos(grafo.tarefa1, u, v, ord) # <<>>)

\* C14 witness: eh_conexo returned false on a graph of four vertices, among
\* them two joined by an edge
C14_Witness ==
    /\ prog = "conexo_caminhos"
    /\ ret.op = "eh_conexo" /\ ret.val[1] = FALSE
    /\ Cardinality(grafo.tarefa1.vertices) = 4
    /\ \E u, v \in grafo.tarefa1.vertices, ord \in Ordens(grafo.tarefa1.vertices) :
          u # v /\ Calcular_possibilidades_caminhos(grafo.tarefa1, u, v, ord) # <<>>

\* C15: eh_conexo of trabalho1/3p1.py returns true exactly when the DFS from
\* the start vertex visits every vertex, whichever start vertex is picked:
\* false for a graph of two components, true for a graph with no vertices.
C15_EhConexoTrabalho1 ==
    (prog = "trabalho1_3p1" /\ ret.op = "eh_conexo") =>
       /\ ret.out = "return"
       /\ ret.val[1] = (\A u \in DOMAIN grafo : FechoAdj(grafo, {u}) = DOMAIN grafo)

\* C16: eh_ciclico returns true exactly when some component holds a cycle,
\* that is when the graph has more edges than a forest on its components
\* (|E| > |V| - components), whatever the order of the insertions: false for
\* trees and forests, true for a tree with one more edge.
C16_EhCiclico ==
    (prog = "propriedades_grafo" /\ ret.op = "eh_ciclico") =>
       ret.val[1] =
          (Cardinality(inseridas) >
              Cardinality(VerticesInseridos) - Cardinality(Componentes))

\* C16 witness: eh_ciclico returned true on a graph without loops or
\* repeated edges whose cycle is not in the component searched first
C16_Witness ==
    /\ prog = "propriedades_grafo"
    /\ ret.op = "eh_ciclico" /\ ret.val[1] = TRUE
    /\ Cardinality(ParesInseridos) = Cardinality(inseridas)
    /\ \A a \in ParesInseridos : Cardinality(a) = 2
    /\ Cardinality(Componentes) = 2
    /\ ~Tem_ciclo(grafo, ordem[1], <<>>, {}).ciclo

\* C17: eh_plano returns true for fewer than 3 vertices and otherwise exactly
\* when e <= 3v - 6, e being the number of add_aresta calls made.
C17_EhPlano ==
    (prog = "propriedades_grafo" /\ ret.op = "eh_plano") =>
       LET v == Cardinality(DOMAIN grafo)
           e == Cardinality(inseridas)
       IN  ret.val[1] = (IF v < 3 THEN TRUE ELSE e <= 3 * v - 6)

\* C17 witness: eh_plano returned false
C17_Witness ==
    /\ prog = "propriedades_grafo"
    /\ ret.op = "eh_plano" /\ ret.val[1] = FALSE

\* the list of arcs cam is a walk from u to v over stored arcs that visits no
\* vertex twice: some list xs of different vertices from u to v has
\* cam[i] stored as the arc between xs[i] and xs[i + 1]
CaminhoSimples(cam, u, v) ==
    \E xs \in [1..Len(cam) + 1 -> grafo.vertices] :
       /\ xs[1] = u /\ xs[Len(cam) + 1] = v
       /\ \A i, j \in 1..Len(cam) + 1 : xs[i] = xs[j] => i = j
       /\ \A i \in 1..Len(cam) :
             /\ <<xs[i], xs[i + 1]>> \in DOMAIN grafo.arcos
             /\ grafo.arcos[<<xs[i], xs[i + 1]>>] = cam[i]

\* C18: every path calcular_possibilidades_caminhos(u, v) returns starts at
\* u, ends at v, visits no vertex twice and goes over arcs stored between
\* consecutive vertices.
C18_CaminhosSimples ==
    (prog = "tarefa1" /\ ret.op = "calcular_possibilidades_caminhos") =>
       \A k \in 1..Len(ret.val[1]) :
          CaminhoSimples(ret.val[1][k], ret.args[1], ret.args[2])

\* C18 witness: two paths were returned, one of them of two arcs
C18_Witness ==
    /\ prog = "tarefa1"
    /\ ret.op = "calcular_possibilidades_caminhos"
    /\ Len(ret.val[1]) = 2
    /\ \E k \in 1..2 : Len(ret.val[1][k]) = 2

\* the vertices of tarefa1 joined to a vertex of S by arcs
RECURSIVE FechoArcos(_)
FechoArcos(S) ==
    LET T == S \cup {a[2] : a \in {b \in DOMAIN grafo.arcos : b[1] \in S}}
    IN  IF T = S THEN S ELSE FechoArcos(T)

\* C19: calcular_possibilidades_caminhos(v1, v2) raises nothing and returns
\* the empty list when v1 or v2 is not in the vertex set, and when both are
\* vertices that no path joins.
C19_SemCaminho ==
    (prog = "tarefa1" /\ ret.op = "calcular_possibilidades_caminhos") =>
       LET v1 == ret.args[1]
           v2 == ret.args[2]
       IN  /\ ret.out = "return"
           /\ (v1 \notin grafo.vertices \/ v2 \notin grafo.vertices) => ret.val[1] = <<>>
           /\ (v1 \in grafo.vertices /\ v2 \in grafo.vertices /\ v2 \notin FechoArcos({v1}))
                  => ret.val[1] = <<>>

\* C19 witness: the call was made with a vertex that is not in a graph that
\* holds arcs, as origin and destination
C19_Witness ==
    /\ prog = "tarefa1"
    /\ ret.op = "calcular_possibilidades_caminhos"
    /\ ret.args[1] = ret.args[2] /\ ret.args[1] \notin grafo.vertices
    /\ DOMAIN grafo.arcos # {}
    /\ ret.val[1] = <<>>

\* C20: calcular_caminhos_possiveis of the adjacency-list and the
\* adjacency-matrix variant returns the empty list, and raises nothing, when
\* origem or destino is no vertex of the graph.
C20_CaminhosVerticeAusente ==
    [][ /\ ret'.op = "calcular_caminhos_possiveis" =>
          /\ prog = "tarefa2_lista" =>
                \A o, d \in NomesT2 :
                   ( /\ Upper(o) \notin DOMAIN grafo \/ Upper(d) \notin DOMAIN grafo
                     /\ \E ord \in Ordens(ArestasLista(grafo)) : ListaCaminhos(o, d, ord) )
                   => ret'.out = "return" /\ ret'.val = <<>>
          /\ prog = "tarefa2_matriz" =>
                \A o, d \in Nomes :
                   ( /\ o \notin DOMAIN grafo \/ d \notin DOMAIN grafo
                     /\ MatrizCaminhos(o, d) )
                   => ret'.out = "return" /\ ret'.val = <<>>
      ]_vars

\* the lists of different vertices that start at u and end at v
SeqsSimples(V, u, v) ==
    UNION {{xs \in [1..n -> V] :
               /\ xs[1] = u /\ xs[n] = v
               /\ \A i, j \in 1..n : xs[i] = xs[j] => i = j} : n \in 1..Cardinality(V)}

\* the simple paths from u to v of the arc map of tarefa1, each as the list
\* of the arcs stored between its consecutive vertices
CaminhosDosArcos(u, v) ==
    {[i \in 1..Len(xs) - 1 |-> grafo.arcos[<<xs[i], xs[i + 1]>>]] :
        xs \in {ys \in SeqsSimples(grafo.vertices, u, v) :
                   \A i \in 1..Len(ys) - 1 : <<ys[i], ys[i + 1]>> \in DOMAIN grafo.arcos}}

\* the edges <<origem, destino, peso>> stored by a tarefa2 program
ArestasT2 ==
    IF prog = "tarefa2_lista" THEN ArestasLista(grafo)
    ELSE {<<od[1], od[2], grafo[od[1]][od[2]][1]>> :
             od \in {x \in (DOMAIN grafo) \X (DOMAIN grafo) : grafo[x[1]][x[2]] # None}}

\* the simple paths from u to v over the edges of a tarefa2 program, each as
\* the list of the (destino, peso) of its edges
CaminhosDasArestas(u, v) ==
    UNION {{cam \in [1..Len(xs) - 1 -> (DOMAIN grafo) \X Pesos] :
               \A i \in 1..Len(xs) - 1 :
                  /\ cam[i][1] = xs[i + 1]
                  /\ <<xs[i], xs[i + 1], cam[i][2]>> \in ArestasT2} :
           xs \in SeqsSimples(DOMAIN grafo, u, v)}

\* the list cs holds every element of the set S, and each once
CadaUmUmaVez(cs, S) ==
    /\ {cs[k] : k \in 1..Len(cs)} = S
    /\ \A i, j \in 1..Len(cs) : cs[i] = cs[j] => i = j

\* C21: called with two different vertices of the graph, the path
\* enumeration of tarefa1, tarefa2_lista and tarefa2_matriz returns a list
\* that holds every simple path from the first to the second over the stored
\* edges, each exactly once, whatever the order the loops follow.
C21_CaminhosCompletos ==
    /\ (prog = "tarefa1" /\ ret.op = "calcular_possibilidades_caminhos"
           /\ ret.args[1] # ret.args[2]
           /\ ret.args[1] \in grafo.vertices /\ ret.args[2] \in grafo.vertices) =>
          CadaUmUmaVez(ret.val[1], CaminhosDosArcos(ret.args[1], ret.args[2]))
    /\ (prog \in {"tarefa2_lista", "tarefa2_matriz"}
           /\ ret.op = "calcular_caminhos_possiveis"
           /\ ret.args[1] # ret.args[2]
           /\ ret.args[1] \in DOMAIN grafo /\ ret.args[2] \in DOMAIN grafo) =>
          /\ ret.out = "return"
          /\ CadaUmUmaVez(ret.val, CaminhosDasArestas(ret.args[1], ret.args[2]))

\* C21 witness: the adjacency list returned two paths from A to C, one over
\* each of the two edges from A to B
C21_Witness ==
    /\ prog = "tarefa2_lista"
    /\ ret.op = "calcular_caminhos_possiveis"
    /\ ret.args = <<"A", "C">>
    /\ ret.out = "return"
    /\ Len(ret.val) = 2
    /\ \A k \in 1..2 : Len(ret.val[k]) = 2

\* how many arcs of the path cam have the weight p
ArcosDePeso(cam, p) == Cardinality({i \in 1..Len(cam) : cam[i].peso = p})

RECURSIVE SomaPorPeso(_, _)
\* the arcs of cam of weight 1..p, p times the number of arcs of weight p
\* added up
SomaPorPeso(cam, p) ==
    IF p = 0 THEN 0 ELSE p * ArcosDePeso(cam, p) + SomaPorPeso(cam, p - 1)

\* C22: what calcular_soma_pesos(v1, v2) and calcular_soma_comprimentos(v1,
\* v2) return has one entry for each path of a list that
\* calcular_possibilidades_caminhos(v1, v2) returns on the same graph, in the
\* order of that list: the sum of the weights of the arcs of the path, and
\* the number of its arcs.
C22_SomasPorCaminho ==
    (prog = "tarefa1"
       /\ ret.op \in {"calcular_soma_pesos", "calcular_soma_comprimentos"}) =>
       \E ord \in Ordens(grafo.vertices) :
          LET caminhos ==
                  Calcular_possibilidades_caminhos(grafo, ret.args[1], ret.args[2], ord)
          IN  /\ Len(ret.val[1]) = Len(caminhos)
              /\ \A k \in 1..Len(caminhos) :
                    ret.val[1][k] = IF ret.op = "calcular_soma_pesos"
                                    THEN SomaPorPeso(caminhos[k], MaxPeso)
                                    ELSE Len(caminhos[k])

\* C22 witness: calcular_soma_pesos returned the sums of two paths, one of
\* them over an arc of weight MaxPeso and an arc of weight 1
C22_Witness ==
    /\ prog = "tarefa1"
    /\ ret.op = "calcular_soma_pesos"
    /\ Len(ret.val[1]) = 2
    /\ \E k \in 1..2 : ret.val[1][k] = MaxPeso + 1

\* the traversals that take one step of the model
Travessias ==
    {"eh_conexo", "eh_ciclico", "eh_plano", "calcular_possibilidades_caminhos",
     "calcular_caminhos_possiveis"}

\* C23: a traversal leaves the graph as it was: a step that ends with the
\* outcome of eh_conexo, eh_ciclico, eh_plano,
\* calcular_possibilidades_caminhos or calcular_caminhos_possiveis, and every
\* step of prim from its call to its return, changes neither the graph
\* object nor the order of its keys; prim returns a graph built from an
\* empty one.
C23_TravessiaNaoAltera ==
    [][ /\ ret'.op \in Travessias => (grafo' = grafo /\ ordem' = ordem)
        /\ (chamada # <<>> \/ chamada' # <<>>) => (grafo' = grafo /\ ordem' = ordem)
      ]_vars

\* C23 witness: prim has returned a tree of two edges of a graph of three
\* edges
C23_Witness ==
    /\ prog = "dfs_bfs"
    /\ ret.op = "prim"
    /\ SumLen(ret.val[1], DOMAIN ret.val[1]) = 4
    /\ SumLen(grafo, DOMAIN grafo) = 6

\* the vertices of the graph of dfs_bfs joined to a vertex of S by the
\* edges <<o, d, p>> of E
RECURSIVE FechoArestas(_, _)
FechoArestas(E, S) ==
    LET T == S \cup {e[2] : e \in {x \in E : x[1] \in S}}
                \cup {e[1] : e \in {x \in E : x[2] \in S}}
    IN  IF T = S THEN S ELSE FechoArestas(E, T)

\* the edges E join all the vertices V
Liga(E, V) == V = {} \/ \E v \in V : FechoArestas(E, {v}) = V

RECURSIVE PesoDe(_)
\* the sum of the weights of the edges <<o, d, p>> of E
PesoDe(E) ==
    IF E = {} THEN 0
    ELSE LET e == CHOOSE x \in E : TRUE IN e[3] + PesoDe(E \ {e})

\* the spanning trees of the graph of dfs_bfs: the sets of inserted edges,
\* one less than there are vertices, that join all the vertices
ArvoresGeradoras ==
    {T \in SUBSET inseridas :
        /\ Cardinality(T) = Cardinality(DOMAIN grafo) - 1
        /\ Liga(T, DOMAIN grafo)}

RECURSIVE PesoDoGrafo(_, _)
\* the sum of the weights of the entries of the lists of the Graph gr under
\* the keys ks: twice the weight of its edges
PesoDoGrafo(gr, ks) ==
    IF ks = {} THEN 0
    ELSE LET k == CHOOSE x \in ks : TRUE
         IN  PesoDe({<<k, i, gr[k][i][2]>> : i \in 1..Len(gr[k])}) + PesoDoGrafo(gr, ks \ {k})

\* C24: on a connected graph with a root that is one of its vertices, prim
\* returns a graph of |V| - 1 edges over the vertices of G whose total
\* weight is at most that of every spanning tree of G.
C24_PrimArvoreMinima ==
    (prog = "dfs_bfs" /\ ret.op = "prim" /\ ret.args[1] \in DOMAIN grafo
       /\ Liga(inseridas, DOMAIN grafo)) =>
       LET t == ret.val[1]
       IN  /\ SumLen(t, DOMAIN t) = 2 * (Cardinality(DOMAIN grafo) - 1)
           /\ Cardinality(DOMAIN grafo) > 1 => DOMAIN t = DOMAIN grafo
           /\ \A T \in ArvoresGeradoras : PesoDoGrafo(t, DOMAIN t) <= 2 * PesoDe(T)

\* C25: in every iteration of the while loop of prim the vertex EXTRACT_MIN
\* takes from Q is one of Q whose key is at most the key of every vertex of
\* Q, and the first vertex taken is the root r.
C25_ExtraiMinimo ==
    [][ (chamada # <<>> /\ chamada' # <<>>) =>
          LET u == chamada'.extraidos[Len(chamada'.extraidos)]
          IN  /\ NaLista(chamada.Q, u)
              /\ \A i \in 1..Len(chamada.Q) : chamada.key[u] <= chamada.key[chamada.Q[i]]
              /\ (chamada.extraidos = <<>> /\ chamada.r \in DOMAIN grafo) => u = chamada.r
      ]_vars

\* the position of v in the list xs of different elements (0 when v is not
\* in xs)
Posicao(xs, v) ==
    IF NaLista(xs, v) THEN CHOOSE i \in 1..Len(xs) : xs[i] = v ELSE 0

\* the edges <<k, x, p>> of the Graph gr, one for each entry of its lists
EntradasDe(gr) ==
    UNION {{<<k, gr[k][i][1], gr[k][i][2]>> : i \in 1..Len(gr[k])} : k \in DOMAIN gr}

RECURSIVE NumComponentes(_, _)
\* the number of components the edges E make of the vertices V
NumComponentes(E, V) ==
    IF V = {} THEN 0
    ELSE LET v == CHOOSE x \in V : TRUE
         IN  1 + NumComponentes(E, V \ FechoArestas(E, {v}))

\* C29: for every graph and root, the graph prim returns is a forest inside
\* G: each of its edges joins a vertex v to pai[v] with the weight of an
\* edge G has between the two, every vertex with a parent has that edge,
\* pai[v] was taken from Q before v, and there is no cycle.
C29_PrimFloresta ==
    [][ (chamada # <<>> /\ chamada' = <<>>) =>
          LET pai == chamada.pai
              ex == chamada.extraidos
              t == ret'.val[1]
          IN  /\ \A e \in EntradasDe(t) :
                    /\ pai[e[1]] = <<e[2]>> \/ pai[e[2]] = <<e[1]>>
                    /\ e \in EntradasDe(grafo)
              /\ \A v \in DOMAIN pai :
                    pai[v] # None =>
                       /\ \E e \in EntradasDe(t) : e[1] = v /\ e[2] = pai[v][1]
                       /\ Posicao(ex, pai[v][1]) > 0
                       /\ Posicao(ex, pai[v][1]) < Posicao(ex, v)
              /\ SumLen(t, DOMAIN t) =
                    2 * (Cardinality(DOMAIN t) - NumComponentes(EntradasDe(t), DOMAIN t))
      ]_vars

\* C29 witness: called with the root b, prim has returned two edges of a
\* graph of three edges
C29_Witness ==
    /\ prog = "dfs_bfs"
    /\ ret.op = "prim"
    /\ ret.args[1] = "b"
    /\ SumLen(ret.val[1], DOMAIN ret.val[1]) = 4
    /\ Cardinality(inseridas) = 3

\* the weights of the simple paths from u to v of the arc map
PesosDosCaminhos(u, v) == {SomaPorPeso(cam, MaxPeso) : cam \in CaminhosDosArcos(u, v)}

\* C26: calcular_menor_distancia_com_pesos(origem, destino) gives the least
\* total weight of a path from origem to destino, for two vertices of the
\* graph that a path joins: 0 when origem = destino.
C26_MenorDistancia ==
    (prog = "tarefa1/tarefa1" /\ ret.op = "calcular_menor_distancia_com_pesos"
       /\ ret.args[1] \in grafo.vertices /\ ret.args[2] \in grafo.vertices
       /\ PesosDosCaminhos(ret.args[1], ret.args[2]) # {}) =>
       /\ ret.val[1] \in PesosDosCaminhos(ret.args[1], ret.args[2])
       /\ \A p \in PesosDosCaminhos(ret.args[1], ret.args[2]) : ret.val[1] <= p

\* C30: in every path calcular_possibilidades_caminhos(v1, v2) returns the
\* arcs chain: the first arc has origem v1, the last has destino v2, and the
\* destino of an arc is the origem of the next one.
C30_ArcosEncadeados ==
    (prog = "tarefa1" /\ ret.op = "calcular_possibilidades_caminhos") =>
       \A k \in 1..Len(ret.val[1]) :
          LET cam == ret.val[1][k]
          IN  Len(cam) > 0 =>
                 /\ cam[1].origem = ret.args[1]
                 /\ cam[Len(cam)].destino = ret.args[2]
                 /\ \A i \in 1..Len(cam) - 1 : cam[i].destino = cam[i + 1].origem

\* the call of calcular_possibilidades_caminhos that is followed call by
\* call is running
DfsCorre ==
    prog = "tarefa1" /\ chamada # <<>> /\ chamada.op = "calcular_possibilidades_caminhos"

\* the state of the search fits the calls of dfs that have not returned:
\* the visited set holds the atual of every call that is past its entry,
\* which are different vertices, and caminho_atual holds, for every call but
\* the first, the arc its caller took to its atual
PilhaCoerente ==
    LET p == chamada.pilha
        n == Len(p)
    IN  /\ chamada.vertices_visitados = {p[j].atual : j \in {k \in 1..n : p[k].i > 0}}
        /\ \A j, k \in 1..n : p[j].atual = p[k].atual => j = k
        /\ \A j \in 1..n - 1 : p[j].i > 0
        /\ Len(chamada.caminho_atual) = IF n = 0 THEN 0 ELSE n - 1
        /\ \A j \in 1..n - 1 :
              chamada.caminho_atual[j] = grafo.arcos[<<p[j].atual, p[j + 1].atual>>]

\* a step of the search leaves the recorded paths as they are, and a path
\* it records is the path buffer of that moment
SoAcrescenta ==
    (DfsCorre /\ chamada' # <<>>) =>
       LET t == chamada.todos_caminhos
           u == chamada'.todos_caminhos
       IN  \/ u = t
           \/ u = Append(t, chamada.caminho_atual)

\* C27: at every entry to dfs the visited set is the set of the vertices of
\* the calls of dfs above it and the path buffer holds one arc for each of
\* those calls; appends and pops, adds and removes are matched, so that the
\* buffer and the visited set are empty when the first dfs has returned;
\* and a recorded path is not changed by the steps that follow.
C27_Backtracking ==
    /\ [](DfsCorre =>
            LET p == chamada.pilha
                n == Len(p)
            IN  /\ PilhaCoerente
                /\ (n > 0 /\ p[n].i = 0) =>
                      /\ chamada.vertices_visitados = {p[j].atual : j \in 1..n - 1}
                      /\ Len(chamada.caminho_atual) = n - 1
                /\ n = 0 => (chamada.caminho_atual = <<>> /\ chamada.vertices_visitados = {}))
    /\ [][SoAcrescenta]_vars

\* C27 witness: dfs is entered for the third vertex with two arcs in the
\* buffer, after a path was recorded
C27_Witness ==
    /\ DfsCorre
    /\ Len(chamada.pilha) = 3
    /\ chamada.pilha[3].i = 0
    /\ Len(chamada.caminho_atual) = 2
    /\ Len(chamada.todos_caminhos) = 1

\* what the search followed call by call returns is what
\* Calcular_possibilidades_caminhos gives for the same order
PassoAPassoIgual ==
    (DfsCorre /\ Len(chamada.pilha) = 0) =>
       chamada.todos_caminhos =
          Calcular_possibilidades_caminhos(grafo, chamada.args[1], chamada.args[2],
                                           chamada.ord)

\* number of vertices of the graph of the running program
NumVertices ==
    IF prog \in ProgsTarefa1 THEN Cardinality(grafo.vertices)
    ELSE Cardinality(DOMAIN grafo)

\* a depth-first search is running from a vertex of the graph (eh_conexo
\* and eh_ciclico start from keys of the graph and
\* calcular_possibilidades_caminhos enters dfs only for vertices of the
\* graph; calcular_caminhos_possiveis is entered for any origem)
BuscaCorre ==
    /\ chamada # <<>>
    /\ chamada.op = "calcular_caminhos_possiveis" => chamada.args[1] \in DOMAIN grafo

T2PilhaCheia ==
    /\ BuscaCorre
    /\ chamada.op = "calcular_caminhos_possiveis"
    /\ Len(chamada.pilha) = NumVertices
    /\ NumVertices >= 3

\* what eh_conexo, eh_ciclico and calcular_caminhos_possiveis followed call
\* by call return is what Prop_eh_conexo, Prop_eh_ciclico,
\* Lista_calcular_caminhos_possiveis and Matriz_calcular_caminhos_possiveis
\* give
RetornoIgual ==
    [][/\ ConexoRetorno => ret'.val = <<Prop_eh_conexo(grafo, ordem)>>
       /\ CiclicoRetorno => ret'.val = <<Prop_eh_ciclico(grafo, ordem)>>
       /\ (T2Entra \/ T2Retorno) /\ chamada' = <<>> =>
            LET a == chamada.args
                r == IF prog = "tarefa2_lista"
                     THEN Lista_calcular_caminhos_possiveis(grafo, a[1], a[2], <<>>, {},
                                                            chamada.ord)
                     ELSE Matriz_calcular_caminhos_possiveis(grafo, a[1], a[2], <<>>, {},
                                                             ordem)
            IN  ret'.out = r.out /\ ret'.val = r.val]_vars
====
